---------------------------- MODULE Spec2Model ----------------------------
(***************************************************************************)
(* State-machine model of the signal pipeline of the grassroot trading     *)
(* server: the liquidity-sweep (CRT) detectors, the consensus engine, the  *)
(* backtest replay loop, the structure analyzer (swings, order-block       *)
(* mitigation), the minimum-length guards and the CRT scanning scheduler.  *)
(*                                                                         *)
(* Prices are integers (a price in units of 0.0001); values the code       *)
(* obtains by multiplying or dividing are kept exact, as scaled integers   *)
(* or as fractions [n |-> numerator, d |-> denominator].                   *)
(***************************************************************************)
EXTENDS Integers, Sequences, FiniteSets, TLC

VARIABLES
    \* --- CRT detectors (crt-detector.js, market-data.js PureCRTDetector)
    driver,        \* candles the Candle Source returns for the driver timeframe
    lower,         \* candles it returns for the entry timeframe
    crtSetupsRan,  \* CRTDetector.findThreeCandleSetups has returned
    crtSetups,     \* what it returned
    crtRan,        \* CRTDetector.detect has returned
    crtSignals,    \* what CRTDetector.detect returned
    pureRan,       \* PureCRTDetector.findThreeCandleSetups has returned
    pureSetups,    \* what it returned
    \* --- consensus engine (signal-generator.js)
    group,         \* one group of same-type detector signals
    consRan,       \* calculateConsensus has returned
    consensus,     \* what it returned: <<>> for null, else <<signal>>
    \* --- backtest replay engine (backtester.js Backtester.backtest)
    btLen,         \* marketData.length
    btCloses,      \* marketData[30 ..].close, the closes the loop reads
    btPc,          \* "loop": in the for loop, "done": backtest has returned
    btI,           \* the loop index i (0-based bar index)
    capital,       \* running capital, a fraction
    position,      \* <<>> for null, else <<open position>>
    trades,        \* the trade log
    equityCurve,   \* the equity curve
    btResult,      \* <<>> until backtest returns, then <<its result>>
    btSignals,     \* number of bars at which the strategy returned a signal
    btThrows,      \* number of bars at which the strategy threw
    btMalformed,   \* the bars whose candle has no numeric close
    btLog,         \* per replayed bar: what the strategy returned, and whether
                   \* a position was open when it did
    \* --- structure analyzer (backtester.js CHOCHDetector)
    mitData,       \* the candle sequence of the symbol, ascending timestamps
    mitLevels,     \* mitigation.levels of the latest analyzeMitigation(mitData)
    mitPrev,       \* mitigation.levels of the analysis before it
    swPrices,      \* a price sequence (highs or lows)
    swType,        \* "high" or "low"
    now,           \* Date.now(), in ms
    swRuns,        \* what successive findSwingPoints(swPrices, swType) returned
    \* --- minimum-length guards of the detectors and generators
    candleCount,   \* length of the candle sequence handed to the component
    inSession,     \* PureScalpingStrategy.isTradingSession() at the call
    called,        \* the component that was called, "" before the call
    returned,      \* the list it returned
    threw,         \* TRUE iff the call threw to its caller
    \* --- CRT scanner (crt-detector.js scanAllSymbols / startScanning)
    scanning,      \* this.scanning
    scanInterval,  \* TRUE iff this.scanInterval holds a timer
    lastScanRun,   \* the run that last wrote lastScanTime, 0 if none
    runs,          \* every scanAllSymbols call made so far
    \* --- strategy-profile signal generator (part_002 generateSignals)
    pfStrategy,    \* the strategy argument
    pfTimeframe,   \* the timeframe argument
    pfSignals,     \* allSignals: what the signal sources produced for the window
    pfRisk,        \* what riskManager.analyzeRisk does: throws, or a riskScore
    pfCalled,      \* TRUE once generateSignals has returned
    pfReturned,    \* the list it returned
    pfThrew,       \* TRUE iff the call rejected to its caller
    \* --- SMC top-down strategy (smc-strategy.js generateSMCSignals)
    h4,            \* what getMarketData(symbol, '4h') resolves to
    m15,           \* what getMarketData(symbol, '15m') resolves to
    m1,            \* what getMarketData(symbol, '1m') resolves to
    smcCalled,     \* TRUE once generateSMCSignals has returned
    smcReturned,   \* the list it returned
    \* --- detector-driven signal generator (part_003 generateSignals)
    rdStrategy,    \* the strategy argument
    rdTimeframe,   \* the timeframe argument
    rdOutcomes,    \* per detector: what it does for the candle window
    rdHour,        \* the UTC hour of the wall clock
    rdCalls,       \* the generateSignals calls made so far, same arguments
    \* --- signal generator of signal-generator.js
    sgOutcomes,    \* per signal source: what it does for the candle window
    sgRisk,        \* what riskManager.analyzeRisk does
    sgCalled,      \* TRUE once generateSignals has returned
    sgReturned,    \* the list it returned
    \* --- market data services (market-data.js)
    mdUseReal,     \* process.env.USE_REAL_MARKET_DATA === 'true'
    mdUp,          \* whether the upstream provider answers
    mdHistory,     \* how many candles of history the provider holds
    mdLimit,       \* the limit argument
    mdCache,       \* this.cache entry of the (symbol, timeframe, limit) key
    mdNow,         \* Date.now() in ms
    mdResults,     \* the getMarketData calls made so far
    \* --- market structure (part_001, backtester.js CHOCHDetector; BOSStrategy)
    stHighs,       \* prices of the swing highs, oldest first
    stLows,        \* prices of the swing lows, oldest first
    stCloses,      \* the closes of the candles
    stCalled,      \* TRUE once analyzeMarketStructure has returned
    stStructure,   \* the structure it returned
    \* --- risk enhancement (signal-generator.js enhanceWithRisk)
    enSignal,      \* the consensus signal handed to enhanceWithRisk
    enRisk,        \* the risk assessment
    enCalled,      \* TRUE once enhanceWithRisk has returned
    enEnhanced,    \* the signal it returned
    \* --- signals of one CRT scan (crt-detector.js scanAllSymbols / scanSymbol)
    seSymbols,     \* per symbol of getAllSymbols: the patterns detectCRTPatterns finds
    sePc,          \* where the scan is: "idle", "batch", "emit", "done"
    seIndex,       \* the loop index i of scanAllSymbols
    seResults,     \* results
    seEmitted,     \* the 'signal' events emitted, in order
    \* --- WebSocketService (pure-scalping.js, part_005)
    ws,            \* this.ws: "none", or the state of the socket it refers to
    wsConnecting,  \* sockets no longer in this.ws that are still connecting
    wsOpen,        \* sockets no longer in this.ws that are open
    wsClosing,     \* sockets no longer in this.ws on which close() was called
    isConnected,   \* this.isConnected
    reconnectAttempts, \* this.reconnectAttempts
    wsTimers,      \* reconnect timers scheduled and not yet fired
    wsCreated,     \* sockets created so far
    wsStopped,     \* TRUE from a disconnect() call until the next connect() call
    wsResumed      \* TRUE once a reconnect was scheduled or a socket created while wsStopped

crtVars == <<driver, lower, crtSetupsRan, crtSetups, crtRan, crtSignals, pureRan, pureSetups>>

consVars == <<group, consRan, consensus>>

btVars == <<btLen, btCloses, btPc, btI, capital, position, trades, equityCurve,
            btResult, btSignals, btThrows, btMalformed, btLog>>

mitVars == <<mitData, mitLevels, mitPrev>>

swVars == <<swPrices, swType, now, swRuns>>

guardVars == <<candleCount, inSession, called, returned, threw>>

scanVars == <<scanning, scanInterval, lastScanRun, runs>>

pfVars == <<pfStrategy, pfTimeframe, pfSignals, pfRisk, pfCalled, pfReturned, pfThrew>>

smcVars == <<h4, m15, m1, smcCalled, smcReturned>>

rdVars == <<rdStrategy, rdTimeframe, rdOutcomes, rdHour, rdCalls>>

sgVars == <<sgOutcomes, sgRisk, sgCalled, sgReturned>>

mdVars == <<mdUseReal, mdUp, mdHistory, mdLimit, mdCache, mdNow, mdResults>>

stVars == <<stHighs, stLows, stCloses, stCalled, stStructure>>

enVars == <<enSignal, enRisk, enCalled, enEnhanced>>

seVars == <<seSymbols, sePc, seIndex, seResults, seEmitted>>

wsVars == <<ws, wsConnecting, wsOpen, wsClosing, isConnected, reconnectAttempts, wsTimers, wsCreated, wsStopped, wsResumed>>

vars == <<crtVars, consVars, btVars, mitVars, swVars, guardVars, scanVars, pfVars, smcVars,
          rdVars, sgVars, mdVars, stVars, enVars, seVars, wsVars>>

\* what an action of one component leaves alone
crtOthers == <<consVars, btVars, mitVars, swVars, guardVars, scanVars, pfVars, smcVars, rdVars, sgVars, mdVars, stVars, enVars, seVars, wsVars>>
consOthers == <<crtVars, btVars, mitVars, swVars, guardVars, scanVars, pfVars, smcVars, rdVars, sgVars, mdVars, stVars, enVars, seVars, wsVars>>
btOthers == <<crtVars, consVars, mitVars, swVars, guardVars, scanVars, pfVars, smcVars, rdVars, sgVars, mdVars, stVars, enVars, seVars, wsVars>>
mitOthers == <<crtVars, consVars, btVars, swVars, guardVars, scanVars, pfVars, smcVars, rdVars, sgVars, mdVars, stVars, enVars, seVars, wsVars>>
swOthers == <<crtVars, consVars, btVars, mitVars, guardVars, scanVars, pfVars, smcVars, rdVars, sgVars, mdVars, stVars, enVars, seVars, wsVars>>
guardOthers == <<crtVars, consVars, btVars, mitVars, swVars, scanVars, pfVars, smcVars, rdVars, sgVars, mdVars, stVars, enVars, seVars, wsVars>>
scanOthers == <<crtVars, consVars, btVars, mitVars, swVars, guardVars, pfVars, smcVars, rdVars, sgVars, mdVars, stVars, enVars, seVars, wsVars>>
pfOthers == <<crtVars, consVars, btVars, mitVars, swVars, guardVars, scanVars, smcVars, rdVars, sgVars, mdVars, stVars, enVars, seVars, wsVars>>
smcOthers == <<crtVars, consVars, btVars, mitVars, swVars, guardVars, scanVars, pfVars, rdVars, sgVars, mdVars, stVars, enVars, seVars, wsVars>>
rdOthers == <<crtVars, consVars, btVars, mitVars, swVars, guardVars, scanVars, pfVars, smcVars, sgVars, mdVars, stVars, enVars, seVars, wsVars>>
sgOthers == <<crtVars, consVars, btVars, mitVars, swVars, guardVars, scanVars, pfVars, smcVars, rdVars, mdVars, stVars, enVars, seVars, wsVars>>
mdOthers == <<crtVars, consVars, btVars, mitVars, swVars, guardVars, scanVars, pfVars, smcVars, rdVars, sgVars, stVars, enVars, seVars, wsVars>>
stOthers == <<crtVars, consVars, btVars, mitVars, swVars, guardVars, scanVars, pfVars, smcVars, rdVars, sgVars, mdVars, enVars, seVars, wsVars>>
enOthers == <<crtVars, consVars, btVars, mitVars, swVars, guardVars, scanVars, pfVars, smcVars, rdVars, sgVars, mdVars, stVars, seVars, wsVars>>
seOthers == <<crtVars, consVars, btVars, mitVars, swVars, guardVars, scanVars, pfVars, smcVars, rdVars, sgVars, mdVars, stVars, enVars, wsVars>>
wsOthers == <<crtVars, consVars, btVars, mitVars, swVars, guardVars, scanVars, pfVars, smcVars, rdVars, sgVars, mdVars, stVars, enVars, seVars>>

----------------------------------------------------------------------------
(* Arithmetic helpers *)

Abs(x) == IF x < 0 THEN -x ELSE x

Min(a, b) == IF a < b THEN a ELSE b

Max(a, b) == IF a > b THEN a ELSE b

RECURSIVE GCD(_, _)
GCD(a, b) == IF b = 0 THEN a ELSE GCD(b, a % b)

\* Fractions [n, d] in lowest terms with d > 0
Rat(n, d) ==
    LET g == GCD(Abs(n), Abs(d))
    IN  IF d < 0 THEN [n |-> (0 - n) \div g, d |-> (0 - d) \div g]
        ELSE [n |-> n \div g, d |-> d \div g]

RatInt(k) == [n |-> k, d |-> 1]

RatZero == RatInt(0)

RatAdd(x, y) ==
    LET g == GCD(x.d, y.d)
        l == (x.d \div g) * y.d
    IN  Rat(x.n * (l \div x.d) + y.n * (l \div y.d), l)

RatNeg(x) == [n |-> 0 - x.n, d |-> x.d]

RatSub(x, y) == RatAdd(x, RatNeg(y))

RatMul(x, y) ==
    LET g1 == GCD(Abs(x.n), y.d)
        g2 == GCD(Abs(y.n), x.d)
    IN  IF x.n = 0 \/ y.n = 0 THEN RatZero
        ELSE [n |-> (x.n \div g1) * (y.n \div g2), d |-> (x.d \div g2) * (y.d \div g1)]

\* x / y for y # 0
RatDiv(x, y) ==
    RatMul(x, IF y.n < 0 THEN [n |-> 0 - y.d, d |-> 0 - y.n] ELSE [n |-> y.d, d |-> y.n])

RatLess(x, y) ==
    LET g == GCD(x.d, y.d)
        l == (x.d \div g) * y.d
    IN  x.n * (l \div x.d) < y.n * (l \div y.d)

RatLeq(x, y) == x = y \/ RatLess(x, y)

RECURSIVE SeqsUpTo(_, _)
\* all sequences over S of length 0..n
SeqsUpTo(S, n) ==
    IF n = 0 THEN {<<>>}
    ELSE LET shorter == SeqsUpTo(S, n - 1)
         IN  shorter \cup {Append(s, x) : s \in {t \in shorter : Len(t) = n - 1}, x \in S}

----------------------------------------------------------------------------
(* CRT detectors *)

\* longest driver sequence drawn
MaxDriver == 4

\* signal prices are kept in units of 1e-8 so that high * 1.0005 is exact
PriceScale == 10000
StopBufferUp == 10005
StopBufferDown == 9995

Candle(o, h, l, c) == [open |-> o, high |-> h, low |-> l, close |-> c]

\* Driver candles: a small candle, the range candle of the spec's example
\* [1.0950, 1.0975], and sweep candles of each kind relative to that range.
DriverCandles ==
    { Candle(10968, 10970, 10960, 10968),    \* inside candle
      Candle(10960, 10975, 10950, 10968),    \* range candle
      Candle(10970, 10980, 10955, 10968),    \* wick above, close inside
      Candle(10970, 10985, 10965, 10980),    \* wick above, close above
      Candle(10970, 10980, 10940, 10945),    \* wick above, close below the low
      Candle(10960, 10970, 10940, 10955),    \* wick below, close inside
      Candle(10950, 10960, 10935, 10940) }   \* wick below, close below

\* Entry-timeframe inputs: nothing, one candle, a bearish gap, a bullish gap
GapUpper == Candle(10974, 10976, 10972, 10973)
GapLower == Candle(10962, 10964, 10958, 10960)
LowerInputs == { <<>>, <<GapUpper>>, <<GapUpper, GapLower>>, <<GapLower, GapUpper>> }

\* one iteration of the loop of CRTDetector.findThreeCandleSetups (i is 1-based)
CRTSetupAt_NoInvalidation(data, i) ==
    LET c1 == data[i - 2]
        c2 == data[i - 1]
        c3 == data[i]
        crh == c1.high
        crl == c1.low
        sweptUp == c2.high > crh /\ c2.close < crh
        sweptDown == c2.low < crl /\ c2.close > crl
        setup(dir) == [sweepDirection |-> dir, crh |-> crh, crl |-> crl,
                       sweepHigh |-> c2.high, sweepLow |-> c2.low,
                       entryHint |-> c3.open]
    IN  IF sweptUp THEN <<setup("up")>>
        ELSE IF sweptDown THEN <<setup("down")>>
        ELSE <<>>

CRTSetupAt(data, i) ==
    LET c1 == data[i - 2]
        c2 == data[i - 1]
        c3 == data[i]
        crh == c1.high
        crl == c1.low
        sweptUp == c2.high > crh /\ c2.close < crh
        sweptDown == c2.low < crl /\ c2.close > crl
        invalid == c2.close > crh \/ c2.close < crl
        setup(dir) == [sweepDirection |-> dir, crh |-> crh, crl |-> crl,
                       sweepHigh |-> c2.high, sweepLow |-> c2.low,
                       entryHint |-> c3.open]
    IN  IF invalid THEN <<>>
        ELSE IF sweptUp THEN <<setup("up")>>
        ELSE IF sweptDown THEN <<setup("down")>>
        ELSE <<>>

RECURSIVE CRTSetupsFrom(_, _)
CRTSetupsFrom(data, i) ==
    IF i > Len(data) THEN <<>>
    ELSE CRTSetupAt(data, i) \o CRTSetupsFrom(data, i + 1)

\* CRTDetector.findThreeCandleSetups
findThreeCandleSetups(data) == CRTSetupsFrom(data, 3)

RECURSIVE FirstFVGFrom(_, _, _)
FirstFVGFrom(data, sweepDirection, i) ==
    IF i > Len(data) THEN <<>>
    ELSE LET a == data[i - 1]
             b == data[i]
             bullGap == b.low > a.high
             bearGap == b.high < a.low
         IN  IF sweepDirection = "up" /\ bearGap THEN <<a.low>>
             ELSE IF sweepDirection = "down" /\ bullGap THEN <<a.high>>
             ELSE FirstFVGFrom(data, sweepDirection, i + 1)

\* CRTDetector.findFirstFVG: <<price>> or <<>> for null
findFirstFVG(data, sweepDirection) ==
    IF Len(data) < 2 THEN <<>> ELSE FirstFVGFrom(data, sweepDirection, 2)

\* the signal CRTDetector.detect builds from one setup
CRTSignalOf(setup, lowerData) ==
    LET refinedEntry == findFirstFVG(lowerData, setup.sweepDirection)
        up == setup.sweepDirection = "up"
        entryPrice == (IF refinedEntry # <<>> THEN refinedEntry[1] ELSE setup.entryHint)
                          * PriceScale
        stopLoss == IF up THEN setup.sweepHigh * StopBufferUp
                    ELSE setup.sweepLow * StopBufferDown
        takeProfit == (IF up THEN setup.crl ELSE setup.crh) * PriceScale
    IN  [type |-> "CRT_THREE_CANDLE",
         direction |-> IF up THEN "SELL" ELSE "BUY",
         entryPrice |-> entryPrice,
         stopLoss |-> stopLoss,
         takeProfit |-> takeProfit,
         confidence |-> Min(95, 65 + (IF refinedEntry # <<>> THEN 10 ELSE 0)),
         \* |tp - entry| / max(1e-9, |entry - stop|); d = 0 stands for the 1e-9 floor
         riskReward |-> [n |-> Abs(takeProfit - entryPrice),
                         d |-> Abs(entryPrice - stopLoss)]]

CRTDetect_FirstSetup(data, lowerData) ==
    IF Len(data) < 3 THEN <<>>
    ELSE LET setups == findThreeCandleSetups(data)
         IN  IF Len(setups) = 0 THEN <<>>
             ELSE <<CRTSignalOf(setups[1], lowerData)>>

\* CRTDetector.detect; a failed entry-timeframe fetch is caught and leaves
\* refinedEntry null, as an empty entry-timeframe sequence does
CRTDetect(data, lowerData) ==
    IF Len(data) < 3 THEN <<>>
    ELSE LET setups == findThreeCandleSetups(data)
         IN  IF Len(setups) = 0 THEN <<>>
             ELSE <<CRTSignalOf(setups[Len(setups)], lowerData)>>

\* one iteration of the loop of PureCRTDetector.findThreeCandleSetups
PureSetupAt(data, i) ==
    LET rangeCandle == data[i - 2]
        sweepCandle == data[i - 1]
        triggerCandle == data[i]
        rangeHigh == rangeCandle.high
        rangeLow == rangeCandle.low
        sweptUp == sweepCandle.high > rangeHigh /\ sweepCandle.close <= rangeHigh
        sweptDown == sweepCandle.low < rangeLow /\ sweepCandle.close >= rangeLow
        \* sweepMagnitude < 0.0002, as magnitude * 10000 < 2
        tooSmall == IF sweptUp
                    THEN (sweepCandle.high - rangeHigh) * 10000 < 2 * rangeHigh
                    ELSE (rangeLow - sweepCandle.low) * 10000 < 2 * rangeLow
        \* close against rangeMid = (rangeHigh + rangeLow) / 2
        triggerConfirms == IF sweptUp
                           THEN 2 * triggerCandle.close < rangeHigh + rangeLow
                           ELSE 2 * triggerCandle.close > rangeHigh + rangeLow
    IN  IF ~sweptUp /\ ~sweptDown THEN <<>>
        ELSE IF tooSmall THEN <<>>
        ELSE IF ~triggerConfirms THEN <<>>
        ELSE <<[sweepDirection |-> IF sweptUp THEN "up" ELSE "down",
                rangeHigh |-> rangeHigh, rangeLow |-> rangeLow,
                sweepHigh |-> sweepCandle.high, sweepLow |-> sweepCandle.low,
                triggerOpen |-> triggerCandle.open,
                triggerClose |-> triggerCandle.close,
                at |-> i]>>

RECURSIVE PureSetupsFrom(_, _)
PureSetupsFrom(data, i) ==
    IF i > Len(data) THEN <<>>
    ELSE PureSetupAt(data, i) \o PureSetupsFrom(data, i + 1)

\* PureCRTDetector.findThreeCandleSetups ("at" stands for the setup's timestamp,
\* the trigger candle's)
PureFindThreeCandleSetups(data) == PureSetupsFrom(data, 3)

CRTInit ==
    /\ driver \in SeqsUpTo(DriverCandles, MaxDriver)
    /\ lower \in LowerInputs
    /\ crtSetupsRan = FALSE
    /\ crtSetups = <<>>
    /\ crtRan = FALSE
    /\ crtSignals = <<>>
    /\ pureRan = FALSE
    /\ pureSetups = <<>>

CRTIdle ==
    /\ driver = <<>>
    /\ lower = <<>>
    /\ crtSetupsRan = FALSE
    /\ crtSetups = <<>>
    /\ crtRan = FALSE
    /\ crtSignals = <<>>
    /\ pureRan = FALSE
    /\ pureSetups = <<>>

\* CRTDetector.findThreeCandleSetups(data)
FindCRTSetups ==
    /\ ~crtSetupsRan
    /\ crtSetupsRan' = TRUE
    /\ crtSetups' = findThreeCandleSetups(driver)
    /\ UNCHANGED <<driver, lower, crtRan, crtSignals, pureRan, pureSetups>>
    /\ UNCHANGED crtOthers

\* CRTDetector.detect(symbol, marketDataService)
DetectCRT ==
    /\ ~crtRan
    /\ crtRan' = TRUE
    /\ crtSignals' = CRTDetect(driver, lower)
    /\ UNCHANGED <<driver, lower, crtSetupsRan, crtSetups, pureRan, pureSetups>>
    /\ UNCHANGED crtOthers

\* PureCRTDetector.findThreeCandleSetups(driverData)
DetectPureCRT ==
    /\ ~pureRan
    /\ pureRan' = TRUE
    /\ pureSetups' = PureFindThreeCandleSetups(driver)
    /\ UNCHANGED <<driver, lower, crtSetupsRan, crtSetups, crtRan, crtSignals>>
    /\ UNCHANGED crtOthers

----------------------------------------------------------------------------
(* Signal consensus engine *)

\* largest group of same-type signals drawn
MaxGroup == 4

\* confidences in hundredths
ConfidenceLevels == {55, 70, 90}

GroupSignals ==
    [type : {"CHOCH_BULLISH"}, direction : {"BUY", "SELL"}, confidence : ConfidenceLevels]

RECURSIVE SumConfidence(_)
\* signals.reduce((sum, s) => sum + s.confidence, 0)
SumConfidence(signals) ==
    IF signals = <<>> THEN 0
    ELSE signals[1].confidence + SumConfidence(Tail(signals))

\* signals.filter(s => s.direction === dir).length
CountDirection(signals, dir) == Len(SelectSeq(signals, LAMBDA x : x.direction = dir))

calculateConsensus_MajorityShare(signals) ==
    IF Len(signals) = 0 THEN <<>>
    ELSE LET buySignals == CountDirection(signals, "BUY")
             sellSignals == CountDirection(signals, "SELL")
         IN  <<[type |-> signals[1].type,
                direction |-> IF buySignals > sellSignals THEN "BUY" ELSE "SELL",
                confidence |-> [n |-> SumConfidence(signals) * Max(buySignals, sellSignals),
                                d |-> Len(signals) * Len(signals)],
                consensus |-> TRUE]>>

\* SignalGenerator.calculateConsensus; confidence = avgConfidence *
\* (|buys - sells| / length) as the fraction n / d, in hundredths
calculateConsensus(signals) ==
    IF Len(signals) = 0 THEN <<>>
    ELSE LET buySignals == CountDirection(signals, "BUY")
             sellSignals == CountDirection(signals, "SELL")
         IN  <<[type |-> signals[1].type,
                direction |-> IF buySignals > sellSignals THEN "BUY" ELSE "SELL",
                confidence |-> [n |-> SumConfidence(signals) * Abs(buySignals - sellSignals),
                                d |-> Len(signals) * Len(signals)],
                consensus |-> TRUE]>>

ConsInit ==
    /\ group \in SeqsUpTo(GroupSignals, MaxGroup)
    /\ consRan = FALSE
    /\ consensus = <<>>

ConsIdle ==
    /\ group = <<>>
    /\ consRan = FALSE
    /\ consensus = <<>>

\* SignalGenerator.calculateConsensus(signals)
CalculateConsensus ==
    /\ ~consRan
    /\ consRan' = TRUE
    /\ consensus' = calculateConsensus(group)
    /\ UNCHANGED group
    /\ UNCHANGED consOthers

----------------------------------------------------------------------------
(* Backtest replay engine *)

\* most bars replayed after the lookback window
MaxBars == 3

\* for (let i = 30; ...), marketData.slice(i-30, i)
Lookback == 30

\* options.initialCapital || 10000
InitialCapital == 10000

\* options.riskPerTrade || 0.01
RiskPerTrade == [n |-> 1, d |-> 100]

\* closes: at or beyond each stop and target of StrategySignals, and between
BarCloses == {97, 100, 106, 108}

\* what strategy.detect may return as signals[0]; the first is the spec's example
StrategySignals ==
    { [direction |-> "BUY", entryPrice |-> 100, stopLoss |-> 98, takeProfit |-> 106],
      [direction |-> "SELL", entryPrice |-> 104, stopLoss |-> 106, takeProfit |-> 98] }

\* Backtester.calculatePositionSize
calculatePositionSize(cap, riskPercent, entryPrice, stopLoss) ==
    LET riskAmount == RatMul(cap, riskPercent)
        riskPerUnit == Abs(entryPrice - stopLoss)
    IN  RatDiv(riskAmount, RatInt(riskPerUnit))

\* Backtester.enterTrade; entryBar records the bar of the call (entryTime in
\* the code is the wall clock)
enterTrade(signal, currentCapital, bar) ==
    [direction |-> signal.direction,
     entryPrice |-> signal.entryPrice,
     stopLoss |-> signal.stopLoss,
     takeProfit |-> signal.takeProfit,
     size |-> calculatePositionSize(currentCapital, RiskPerTrade,
                                    signal.entryPrice, signal.stopLoss),
     entryBar |-> bar]

\* Backtester.checkExitConditions: "" for shouldExit = false, else the reason
checkExitConditions(pos, currentPrice) ==
    IF pos.direction = "BUY"
    THEN IF currentPrice >= pos.takeProfit THEN "Take profit hit"
         ELSE IF currentPrice <= pos.stopLoss THEN "Stop loss hit"
         ELSE ""
    ELSE IF currentPrice <= pos.takeProfit THEN "Take profit hit"
         ELSE IF currentPrice >= pos.stopLoss THEN "Stop loss hit"
         ELSE ""

\* Backtester.calculatePnl
calculatePnl(pos, exitPrice) ==
    IF pos.direction = "BUY"
    THEN RatMul(RatInt(exitPrice - pos.entryPrice), pos.size)
    ELSE RatMul(RatInt(pos.entryPrice - exitPrice), pos.size)

\* the record pushed to trades; exitBar stands for exitTime, the bar's timestamp;
\* reason is exitResult.reason of the exit ("End of data" for the final close),
\* which the code drops: it is kept to tell the exits apart
TradeRecord(pos, exitPrice, pnl, bar, reason) ==
    [entry |-> pos.entryPrice, exit |-> exitPrice, pnl |-> pnl,
     direction |-> pos.direction, entryBar |-> pos.entryBar, exitBar |-> bar,
     reason |-> reason]

\* marketData[i].close for a bar i >= 30 (0-based)
CloseAt(i) == btCloses[i - Lookback + 1]

\* the candles of marketData, one for each close of BarCloses: the candle
\* closing at 100 has wicks beyond the stops and targets of StrategySignals
BarCandles ==
    { [close |-> 97, high |-> 99, low |-> 97],
      [close |-> 100, high |-> 107, low |-> 97],
      [close |-> 106, high |-> 106, low |-> 104],
      [close |-> 108, high |-> 108, low |-> 107] }

\* marketData[i] for a bar i >= 30 (0-based)
CandleAt(i) == CHOOSE b \in BarCandles : b.close = CloseAt(i)

ShouldEnter_WithoutPositionTest(sigs, pos) == sigs # <<>>

\* if (signal && !position)
ShouldEnter(sigs, pos) == sigs # <<>> /\ pos = <<>>

StillOpen_Never(pos) == FALSE

\* if (position), after the loop
StillOpen(pos) == pos # <<>>

BTInit ==
    /\ btLen \in 0 .. (Lookback + MaxBars)
    /\ btCloses \in {c \in SeqsUpTo(BarCloses, MaxBars) : Len(c) = Max(0, btLen - Lookback)}
    /\ btPc = "loop"
    /\ btI = Lookback
    /\ capital = RatInt(InitialCapital)
    /\ position = <<>>
    /\ trades = <<>>
    /\ equityCurve = <<RatInt(InitialCapital)>>
    /\ btResult = <<>>
    /\ btSignals = 0
    /\ btThrows = 0
    /\ btMalformed \in SUBSET (Lookback .. (btLen - 2))
    /\ btLog = <<>>

BTIdle ==
    /\ btLen = 0
    /\ btCloses = <<>>
    /\ btPc = "idle"
    /\ btI = Lookback
    /\ capital = RatInt(InitialCapital)
    /\ position = <<>>
    /\ trades = <<>>
    /\ equityCurve = <<RatInt(InitialCapital)>>
    /\ btResult = <<>>
    /\ btSignals = 0
    /\ btThrows = 0
    /\ btMalformed = {}
    /\ btLog = <<>>

\* one iteration of the loop in which strategy.detect rejects: the catch logs,
\* nothing is pushed to the equity curve
BacktestBarThrows ==
    /\ btPc = "loop"
    /\ btI < btLen
    /\ btI' = btI + 1
    /\ btThrows' = btThrows + 1
    /\ btLog' = Append(btLog, [bar |-> btI, signals |-> <<>>, threw |-> TRUE,
                               open |-> position # <<>>])
    /\ UNCHANGED <<btLen, btCloses, btPc, capital, position, trades, equityCurve,
                   btResult, btSignals, btMalformed>>
    /\ UNCHANGED btOthers

\* what strategy.detect may resolve to: [] or [signal]
StrategyReturns == {<<>>} \cup {<<sig>> : sig \in StrategySignals}

\* one iteration of the loop, strategy.detect resolving to sigs
BacktestBar ==
    /\ btPc = "loop"
    /\ btI < btLen
    /\ btI \notin btMalformed
    /\ \E sigs \in StrategyReturns :
       LET currentPrice == CloseAt(btI)
           entered == IF ShouldEnter(sigs, position)
                      THEN <<enterTrade(sigs[1], capital, btI)>>
                      ELSE position
           reason == IF entered = <<>> THEN ""
                     ELSE checkExitConditions(entered[1], currentPrice)
           pnl == IF reason = "" THEN RatZero ELSE calculatePnl(entered[1], currentPrice)
       IN  /\ capital' = RatAdd(capital, pnl)
           /\ trades' = IF reason = "" THEN trades
                         ELSE Append(trades,
                                TradeRecord(entered[1], currentPrice, pnl, btI, reason))
           /\ position' = IF reason = "" THEN entered ELSE <<>>
           /\ equityCurve' = Append(equityCurve, RatAdd(capital, pnl))
           /\ btSignals' = btSignals + Len(sigs)
           /\ btLog' = Append(btLog, [bar |-> btI, signals |-> sigs, threw |-> FALSE,
                                      open |-> position # <<>>])
    /\ btI' = btI + 1
    /\ UNCHANGED <<btLen, btCloses, btPc, btResult, btThrows, btMalformed>>
    /\ UNCHANGED btOthers

\* one iteration of the loop at a bar whose candle has no numeric close
\* (currentPrice is undefined), strategy.detect resolving to sigs: after
\* position = this.enterTrade(...) the log line evaluates
\* currentPrice.toFixed(5), which throws into the catch; without an entry no
\* comparison of checkExitConditions holds and the bar ends normally
BacktestBarMalformed ==
    /\ btPc = "loop"
    /\ btI < btLen
    /\ btI \in btMalformed
    /\ \E sigs \in StrategyReturns :
       LET enters == ShouldEnter(sigs, position)
       IN  /\ position' = IF enters THEN <<enterTrade(sigs[1], capital, btI)>> ELSE position
           /\ equityCurve' = IF enters THEN equityCurve ELSE Append(equityCurve, capital)
           /\ btThrows' = IF enters THEN btThrows + 1 ELSE btThrows
           /\ btSignals' = btSignals + Len(sigs)
           /\ btLog' = Append(btLog, [bar |-> btI, signals |-> sigs, threw |-> enters,
                                      open |-> position # <<>>])
    /\ btI' = btI + 1
    /\ UNCHANGED <<btLen, btCloses, btPc, capital, trades, btResult, btMalformed>>
    /\ UNCHANGED btOthers


RECURSIVE SumPnl(_)
\* ts.reduce((sum, t) => sum + t.pnl, 0)
SumPnl(ts) == IF ts = <<>> THEN RatZero ELSE RatAdd(ts[1].pnl, SumPnl(Tail(ts)))

RatAbs(x) == [n |-> Abs(x.n), d |-> x.d]

RatMax(x, y) == IF RatLess(x, y) THEN y ELSE x

\* the drawdown loop of calculatePerformanceMetrics from index i (1-based), in percent
RECURSIVE DrawdownFrom(_, _, _, _)
DrawdownFrom(curve, i, peak, maxDrawdown) ==
    IF i > Len(curve) THEN maxDrawdown
    ELSE IF RatLess(peak, curve[i]) THEN DrawdownFrom(curve, i + 1, curve[i], maxDrawdown)
    ELSE DrawdownFrom(curve, i + 1, peak,
             RatMax(maxDrawdown,
                    RatMul(RatDiv(RatSub(peak, curve[i]), peak), RatInt(100))))

\* returns[i] = (equityCurve[i] - equityCurve[i-1]) / equityCurve[i-1]
ReturnAt(curve, i) == RatDiv(RatSub(curve[i], curve[i - 1]), curve[i - 1])

RECURSIVE SumReturns(_, _)
SumReturns(curve, i) ==
    IF i > Len(curve) THEN RatZero
    ELSE RatAdd(ReturnAt(curve, i), SumReturns(curve, i + 1))

\* sharpeRatio = stdDev > 0 ? (avgReturn / stdDev) * sqrt(252) : 0; the model
\* keeps its sign (stdDev > 0 iff the returns are not all equal)
SharpeSign(curve) ==
    LET idx == 2 .. Len(curve)
        allEqual == \A i, j \in idx : ReturnAt(curve, i) = ReturnAt(curve, j)
        total == SumReturns(curve, 2)
    IN  IF allEqual THEN 0
        ELSE IF total.n > 0 THEN 1
        ELSE IF total.n < 0 THEN -1
        ELSE 0

RatInfinity == [n |-> 1, d |-> 0]

RatNaN == [n |-> 0, d |-> 0]

\* the metrics of a run with trades; values are those before toFixed(2)
TradeMetrics(ts, curve) ==
    LET winningTrades == SelectSeq(ts, LAMBDA t : t.pnl.n > 0)
        losingTrades == SelectSeq(ts, LAMBDA t : t.pnl.n <= 0)
        totalProfit == SumPnl(winningTrades)
        totalLoss == RatAbs(SumPnl(losingTrades))
    IN  [totalTrades |-> RatInt(Len(ts)),
         winRate |-> Rat(Len(winningTrades) * 100, Len(ts)),
         averageWin |-> IF Len(winningTrades) > 0
                        THEN RatDiv(totalProfit, RatInt(Len(winningTrades)))
                        ELSE RatZero,
         averageLoss |-> IF Len(losingTrades) > 0
                         THEN RatDiv(totalLoss, RatInt(Len(losingTrades)))
                         ELSE RatZero,
         profitFactor |-> IF totalLoss.n > 0 THEN RatDiv(totalProfit, totalLoss)
                          ELSE RatInfinity,
         maxDrawdown |-> DrawdownFrom(curve, 2, curve[1], RatZero),
         sharpeRatio |-> RatInt(SharpeSign(curve))]

\* the computation without the early return: 0 / 0 and no losses
calculatePerformanceMetrics_NoEmptyCase(ts, curve) ==
    IF Len(ts) = 0
    THEN [totalTrades |-> RatZero, winRate |-> RatNaN, averageWin |-> RatZero,
          averageLoss |-> RatZero, profitFactor |-> RatInfinity,
          maxDrawdown |-> DrawdownFrom(curve, 2, curve[1], RatZero),
          sharpeRatio |-> RatZero]
    ELSE TradeMetrics(ts, curve)

\* Backtester.calculatePerformanceMetrics
calculatePerformanceMetrics(ts, curve) ==
    IF Len(ts) = 0
    THEN [totalTrades |-> RatZero, winRate |-> RatZero, averageWin |-> RatZero,
          averageLoss |-> RatZero, profitFactor |-> RatZero, maxDrawdown |-> RatZero,
          sharpeRatio |-> RatZero]
    ELSE TradeMetrics(ts, curve)

\* the final close leaving the equity curve as the loop built it
FinalEquityCurve_Untouched(curve, open, finalCapital) == curve

\* equityCurve[equityCurve.length - 1] = capital, inside if (position)
FinalEquityCurve(curve, open, finalCapital) ==
    IF open THEN [curve EXCEPT ![Len(curve)] = finalCapital] ELSE curve

\* the end of Backtester.backtest: the final close, the metrics, the return
BacktestFinish ==
    /\ btPc = "loop"
    /\ btI >= btLen
    /\ LET open == StillOpen(position)
           finalPrice == CloseAt(btLen - 1)
           pnl == IF open THEN calculatePnl(position[1], finalPrice) ELSE RatZero
           finalCapital == RatAdd(capital, pnl)
           finalTrades == IF open
                          THEN Append(trades, TradeRecord(position[1], finalPrice, pnl,
                                                          btLen - 1, "End of data"))
                          ELSE trades
           finalCurve == FinalEquityCurve(equityCurve, open, finalCapital)
       IN  /\ capital' = finalCapital
           /\ trades' = finalTrades
           /\ equityCurve' = finalCurve
           /\ btResult' = <<[finalCapital |-> finalCapital,
                             totalReturn |-> RatMul(RatDiv(RatSub(finalCapital,
                                                 RatInt(InitialCapital)),
                                                 RatInt(InitialCapital)), RatInt(100)),
                             trades |-> finalTrades,
                             equityCurve |-> finalCurve,
                             metrics |-> calculatePerformanceMetrics(finalTrades,
                                                                     finalCurve)]>>
    /\ btPc' = "done"
    /\ UNCHANGED <<btLen, btCloses, btI, position, btSignals, btThrows, btMalformed, btLog>>
    /\ UNCHANGED btOthers

----------------------------------------------------------------------------
(* Structure analyzer: order blocks and their mitigation *)

\* longest candle sequence analyzed
MaxCandles == 7

\* most candles arriving between two analyses
MaxNewCandles == 2

\* candle shapes the Candle Source delivers; the timestamp is set on arrival
CandleShapes ==
    { Candle(5, 6, 3, 4),     \* down candle
      Candle(4, 8, 4, 7),     \* up candle closing above the down candle's high
      Candle(4, 5, 2, 4),     \* dips below the down candle's low
      Candle(5, 5, 1, 2) }    \* down candle closing below the up candle's low

Stamp(c, t) ==
    [open |-> c.open, high |-> c.high, low |-> c.low, close |-> c.close, timestamp |-> t]

RECURSIVE ExtendData(_, _)
\* data with the candles cs appended, timestamps ascending
ExtendData(data, cs) ==
    IF cs = <<>> THEN data
    ELSE ExtendData(Append(data, Stamp(cs[1], Len(data) + 1)), Tail(cs))

\* the order blocks detectOrderBlocks pushes at index i (1-based)
OrderBlocksAt(data, i) ==
    LET current == data[i]
        next == data[i + 1]
        bullish == /\ current.close < current.open
                   /\ next.close > next.open
                   /\ next.close > current.high
        bearish == /\ current.close > current.open
                   /\ next.close < next.open
                   /\ next.close < current.low
        \* strength = |next.close - current.close| / current.close, as a fraction
        strength == [n |-> Abs(next.close - current.close), d |-> current.close]
    IN  (IF bullish
         THEN <<[type |-> "bullish", level |-> current.low,
                 timestamp |-> current.timestamp, strength |-> strength]>>
         ELSE <<>>)
        \o
        (IF bearish
         THEN <<[type |-> "bearish", level |-> current.high,
                 timestamp |-> current.timestamp, strength |-> strength]>>
         ELSE <<>>)

RECURSIVE OrderBlocksFrom(_, _)
\* for (let i = 2; i < data.length - 2; i++), 0-based
OrderBlocksFrom(data, i) ==
    IF i > Len(data) - 2 THEN <<>>
    ELSE OrderBlocksAt(data, i) \o OrderBlocksFrom(data, i + 1)

\* CHOCHDetector.detectOrderBlocks
detectOrderBlocks(data) == OrderBlocksFrom(data, 3)

checkMitigation_LatestCandle(orderBlock, data) ==
    LET relevantData == SelectSeq(data, LAMBDA d : d.timestamp > orderBlock.timestamp)
    IN  /\ relevantData # <<>>
        /\ LET candle == relevantData[Len(relevantData)]
           IN  \/ orderBlock.type = "bullish" /\ candle.low <= orderBlock.level
               \/ orderBlock.type = "bearish" /\ candle.high >= orderBlock.level

\* CHOCHDetector.checkMitigation
checkMitigation(orderBlock, data) ==
    LET relevantData == SelectSeq(data, LAMBDA d : d.timestamp > orderBlock.timestamp)
    IN  \E k \in DOMAIN relevantData :
          LET candle == relevantData[k]
          IN  \/ orderBlock.type = "bullish" /\ candle.low <= orderBlock.level
              \/ orderBlock.type = "bearish" /\ candle.high >= orderBlock.level

\* CHOCHDetector.analyzeMitigation: mitigation.levels
analyzeMitigation(data) ==
    LET orderBlocks == detectOrderBlocks(data)
    IN  [k \in DOMAIN orderBlocks |->
           [type |-> orderBlocks[k].type,
            level |-> orderBlocks[k].level,
            mitigated |-> checkMitigation(orderBlocks[k], data),
            timestamp |-> orderBlocks[k].timestamp]]

MitInit ==
    /\ mitData = <<>>
    /\ mitLevels = <<>>
    /\ mitPrev = <<>>

\* new candles have arrived and analyzeMitigation runs on the longer sequence
AnalyzeMitigation ==
    \E cs \in SeqsUpTo(CandleShapes, MaxNewCandles) :
       /\ cs # <<>>
       /\ Len(mitData) + Len(cs) <= MaxCandles
       /\ mitData' = ExtendData(mitData, cs)
       /\ mitPrev' = mitLevels
       /\ mitLevels' = analyzeMitigation(ExtendData(mitData, cs))
       /\ UNCHANGED mitOthers

----------------------------------------------------------------------------
(* Structure analyzer: swing points *)

\* longest price sequence drawn
MaxPrices == 11

\* latest clock reading, ms
MaxClock == 2

\* const window = 5
SwingWindow == 5

\* the 60000 ms per bar of the approximate timestamp
BarMs == 60000

PriceLevels == {1, 2}

\* isSwing with the comparisons made non-strict
IsSwing_NonStrict(prices, type, i) ==
    LET current == prices[i]
        around == ((i - SwingWindow) .. (i + SwingWindow)) \ {i}
    IN  IF type = "high"
        THEN \A k \in around : prices[k] <= current
        ELSE \A k \in around : prices[k] >= current

\* isSwing for the 1-based index i
IsSwing(prices, type, i) ==
    LET current == prices[i]
        leftWindow == (i - SwingWindow) .. (i - 1)
        rightWindow == (i + 1) .. (i + SwingWindow)
    IN  IF type = "high"
        THEN /\ \A k \in leftWindow : prices[k] < current
             /\ \A k \in rightWindow : prices[k] < current
        ELSE /\ \A k \in leftWindow : prices[k] > current
             /\ \A k \in rightWindow : prices[k] > current

RECURSIVE SwingPointsFrom(_, _, _, _)
\* for (let i = window; i < prices.length - window; i++), 0-based; the records
\* carry the 0-based index
SwingPointsFrom(prices, type, clock, i) ==
    IF i > Len(prices) - SwingWindow THEN <<>>
    ELSE (IF IsSwing(prices, type, i)
          THEN <<[index |-> i - 1, price |-> prices[i],
                  timestamp |-> clock - (Len(prices) - (i - 1)) * BarMs]>>
          ELSE <<>>)
         \o SwingPointsFrom(prices, type, clock, i + 1)

\* CHOCHDetector.findSwingPoints, called when Date.now() = clock
findSwingPoints(prices, type, clock) ==
    SwingPointsFrom(prices, type, clock, SwingWindow + 1)

SwingInit ==
    /\ swPrices \in SeqsUpTo(PriceLevels, MaxPrices)
    /\ swType \in {"high", "low"}
    /\ now = 0
    /\ swRuns = <<>>

SwingIdle ==
    /\ swPrices = <<>>
    /\ swType = "high"
    /\ now = 0
    /\ swRuns = <<>>

\* time passes
Tick ==
    /\ now < MaxClock
    /\ now' = now + 1
    /\ UNCHANGED <<swPrices, swType, swRuns>>
    /\ UNCHANGED swOthers

\* CHOCHDetector.findSwingPoints(prices, type)
FindSwingPoints ==
    /\ Len(swRuns) < 2
    /\ swRuns' = Append(swRuns, findSwingPoints(swPrices, swType, now))
    /\ UNCHANGED <<swPrices, swType, now>>
    /\ UNCHANGED swOthers

----------------------------------------------------------------------------
(* Minimum-length guards of the detectors and generators *)

\* longest candle sequence handed to a component
MaxLength == 51

\* getFallbackSignals(symbol, timeframe)
getFallbackSignals ==
    <<[type |-> "NO_SIGNAL", direction |-> "HOLD", confidence |-> 0,
       marketCondition |-> "insufficient_data"]>>

\* what a component can return once its guard has let the sequence through:
\* no signal, or a signal
PastGuard ==
    { <<>>,
      <<[type |-> "CRT", direction |-> "BUY", confidence |-> 65,
         marketCondition |-> "crt"]>> }

\* CRTDetector.detect: if (!driver || driver.length < 3) return []
CRTDetectReturns(n) == IF n < 3 THEN {<<>>} ELSE PastGuard

\* PureCRTDetector.detect: if (!driverData || driverData.length < 3) return []
PureCRTDetectReturns(n) == IF n < 3 THEN {<<>>} ELSE PastGuard

\* PureScalpingStrategy.generateSignals, minBars = 20
PureScalpingReturns(n, session) == IF ~session \/ n < 20 THEN {<<>>} ELSE PastGuard

\* BOSStrategy.generateSignals, minBars = 50
BOSReturns(n) == IF n < 50 THEN {<<>>} ELSE PastGuard

\* SignalGenerator.generateSignals of signal-generator.js: fewer than 50
\* candles throw inside the try, and the catch returns getFallbackSignals
GenerateSignalsReturns(n) ==
    IF n < 50 THEN {getFallbackSignals} ELSE PastGuard \cup {getFallbackSignals}

\* the strategy-profile SignalGenerator.generateSignals: same guard and catch
ProfileGenerateSignalsReturns(n) ==
    IF n < 50 THEN {getFallbackSignals} ELSE PastGuard \cup {getFallbackSignals}

\* the detector-driven SignalGenerator.generateSignals: fewer than 20 return []
DetectorGenerateSignalsReturns(n) == IF n < 20 THEN {<<>>} ELSE PastGuard

\* the minimum length of each component
MinimumLength ==
    [CRTDetector |-> 3, PureCRTDetector |-> 3, PureScalpingStrategy |-> 20,
     BOSStrategy |-> 50, SignalGenerator |-> 50, ProfileSignalGenerator |-> 50,
     DetectorSignalGenerator |-> 20]

GuardInit ==
    /\ candleCount \in 0..MaxLength
    /\ inSession \in BOOLEAN
    /\ called = ""
    /\ returned = <<>>
    /\ threw = FALSE

GuardIdle ==
    /\ candleCount = 0
    /\ inSession = FALSE
    /\ called = ""
    /\ returned = <<>>
    /\ threw = FALSE

\* a call that returns one of the lists in results; none of the components
\* lets an exception out of its try/catch
Returns(component, results) ==
    /\ called' = component
    /\ returned' \in results
    /\ threw' = FALSE
    /\ UNCHANGED <<candleCount, inSession>>
    /\ UNCHANGED guardOthers

CallCRTDetect ==
    /\ called = ""
    /\ Returns("CRTDetector", CRTDetectReturns(candleCount))

CallPureCRTDetect ==
    /\ called = ""
    /\ Returns("PureCRTDetector", PureCRTDetectReturns(candleCount))

CallPureScalping ==
    /\ called = ""
    /\ Returns("PureScalpingStrategy", PureScalpingReturns(candleCount, inSession))

CallBOS ==
    /\ called = ""
    /\ Returns("BOSStrategy", BOSReturns(candleCount))

CallGenerateSignals ==
    /\ called = ""
    /\ Returns("SignalGenerator", GenerateSignalsReturns(candleCount))

CallProfileGenerateSignals ==
    /\ called = ""
    /\ Returns("ProfileSignalGenerator", ProfileGenerateSignalsReturns(candleCount))

CallDetectorGenerateSignals ==
    /\ called = ""
    /\ Returns("DetectorSignalGenerator", DetectorGenerateSignalsReturns(candleCount))

----------------------------------------------------------------------------
(* CRT scanner *)

\* most scanAllSymbols calls followed
MaxCalls == 3

\* const BATCH_SIZE = 5
BATCH_SIZE == 5

\* how many symbols getAllSymbols resolves to: none, one batch, two batches
SymbolCounts == {0, 1, BATCH_SIZE + 1}

\* how many signals one batch contributes to results
BatchFound == {0, 1}

InProgress(r) == r.pc \in {"fetching", "batch"}

ScanRefused_Never(flag) == FALSE

\* if (this.scanning) { ...; return; }
ScanRefused(flag) == flag

\* a scanAllSymbols call up to its first await; busyAtCall records whether a
\* run was in progress when the call was made
ScanAllSymbolsCall(via) ==
    LET busy == \E r \in DOMAIN runs : InProgress(runs[r])
        run(pc, fetched) ==
            [pc |-> pc, via |-> via, busyAtCall |-> busy, symbols |-> 0, index |-> 0,
             results |-> 0, fetched |-> fetched, scanned |-> 0, emitted |-> 0]
    IN  /\ Len(runs) < MaxCalls
        /\ IF ScanRefused(scanning)
           THEN /\ runs' = Append(runs, run("refused", 0))
                /\ UNCHANGED scanning
           ELSE /\ scanning' = TRUE
                /\ runs' = Append(runs, run("fetching", 1))
        /\ UNCHANGED lastScanRun

\* scanAllSymbols called directly
ScanAllSymbols ==
    /\ ScanAllSymbolsCall("call")
    /\ UNCHANGED scanInterval
    /\ UNCHANGED scanOthers

\* startScanning: the initial scan and the timer
StartScanning ==
    /\ ~scanInterval
    /\ ScanAllSymbolsCall("start")
    /\ scanInterval' = TRUE
    /\ UNCHANGED scanOthers

\* the setInterval callback
TimerTick ==
    /\ scanInterval
    /\ ScanAllSymbolsCall("tick")
    /\ UNCHANGED scanInterval
    /\ UNCHANGED scanOthers

\* stopScanning: clearInterval only
StopScanning ==
    /\ scanInterval
    /\ scanInterval' = FALSE
    /\ UNCHANGED <<scanning, lastScanRun, runs>>
    /\ UNCHANGED scanOthers

\* the run r once the batch starting at index i is entered, or once the loop
\* is over: results emitted, then the finally block
Continue(r, i, results) ==
    IF i < r.symbols
    THEN [r EXCEPT !.pc = "batch", !.index = i, !.results = results,
                   !.scanned = @ + Min(BATCH_SIZE, r.symbols - i)]
    ELSE [r EXCEPT !.pc = "done", !.index = i, !.results = results,
                   !.emitted = results]

\* the flag cleared at the end of the try block only, not in a finally
Leave_OnlyOnSuccess(k, r) ==
    IF r.pc = "done"
    THEN scanning' = FALSE /\ lastScanRun' = k
    ELSE UNCHANGED <<scanning, lastScanRun>>

\* what a run leaves behind when it ends (finally)
Leave(k, r) ==
    IF r.pc \in {"done", "failed"}
    THEN scanning' = FALSE /\ lastScanRun' = k
    ELSE UNCHANGED <<scanning, lastScanRun>>

\* getAllSymbols resolves to n symbols
SymbolsResolved ==
    \E k \in DOMAIN runs, n \in SymbolCounts :
       /\ runs[k].pc = "fetching"
       /\ LET r == Continue([runs[k] EXCEPT !.symbols = n], 0, 0)
          IN  runs' = [runs EXCEPT ![k] = r] /\ Leave(k, r)
       /\ UNCHANGED scanInterval
       /\ UNCHANGED scanOthers

\* getAllSymbols rejects: catch rethrows, finally runs
SymbolsRejected ==
    \E k \in DOMAIN runs :
       /\ runs[k].pc = "fetching"
       /\ LET r == [runs[k] EXCEPT !.pc = "failed"]
          IN  runs' = [runs EXCEPT ![k] = r] /\ Leave(k, r)
       /\ UNCHANGED scanInterval
       /\ UNCHANGED scanOthers

\* Promise.all of a batch resolves with found signals (scanSymbol never rejects)
BatchDone ==
    \E k \in DOMAIN runs, found \in BatchFound :
       /\ runs[k].pc = "batch"
       /\ LET r == Continue(runs[k], runs[k].index + BATCH_SIZE, runs[k].results + found)
          IN  runs' = [runs EXCEPT ![k] = r] /\ Leave(k, r)
       /\ UNCHANGED scanInterval
       /\ UNCHANGED scanOthers

\* the state after construction
ScanInit ==
    /\ scanning = FALSE
    /\ scanInterval = FALSE
    /\ lastScanRun = 0
    /\ runs = <<>>

----------------------------------------------------------------------------
(* Strategy-profile signal generator *)

\* most signals the signal sources produce for one window
MaxSignals == 6

\* this.strategies; confidences and risk-reward ratios in hundredths
Profiles ==
    [scalping |-> [minConfidence |-> 70, minRiskReward |-> 150,
                   timeframes |-> {"1m", "5m"}],
     daytrading |-> [minConfidence |-> 65, minRiskReward |-> 200,
                     timeframes |-> {"15m", "1h"}],
     swingtrading |-> [minConfidence |-> 60, minRiskReward |-> 300,
                       timeframes |-> {"4h", "1d"}]]

\* the strategy names a caller passes; "momentum" is not a profile
StrategyNames == {"scalping", "daytrading", "swingtrading", "momentum"}

\* signals of the sources: order-block signals (confidence = strength * 0.7)
\* and the scalping signal
SourceSignals ==
    { [type |-> "ORDER_BLOCK", direction |-> "BUY", confidence |-> 95, riskReward |-> 200],
      [type |-> "ORDER_BLOCK", direction |-> "SELL", confidence |-> 95, riskReward |-> 200],
      [type |-> "SCALP_BUY", direction |-> "BUY", confidence |-> 70, riskReward |-> 150] }

\* riskManager.analyzeRisk: rejects, or resolves to a riskScore (hundredths)
RiskOutcomes ==
    { [throws |-> TRUE, riskScore |-> 0],
      [throws |-> FALSE, riskScore |-> 50],
      [throws |-> FALSE, riskScore |-> 90] }

\* this.strategies[strategy] || this.strategies.daytrading
StrategyConfig(strategy) ==
    IF strategy \in DOMAIN Profiles THEN Profiles[strategy] ELSE Profiles.daytrading

\* allSignals.filter(signal => confidence >= minConfidence && riskReward >= minRiskReward)
ProfileFilter(signals, config) ==
    SelectSeq(signals, LAMBDA x : /\ x.confidence >= config.minConfidence
                                  /\ x.riskReward >= config.minRiskReward)

RECURSIVE TypesInOrder(_, _)
\* the keys of groupSignalsByType, in order of first appearance
TypesInOrder(signals, seen) ==
    IF signals = <<>> THEN <<>>
    ELSE IF signals[1].type \in seen THEN TypesInOrder(Tail(signals), seen)
    ELSE <<signals[1].type>> \o TypesInOrder(Tail(signals), seen \cup {signals[1].type})

\* calculateConsensus of the profile generator: { ...signals[0], confidence,
\* direction, consensus: true }; confidence is the fraction n / d, in hundredths
ProfileConsensus(signals) ==
    LET buySignals == CountDirection(signals, "BUY")
        sellSignals == CountDirection(signals, "SELL")
    IN  [type |-> signals[1].type,
         direction |-> IF buySignals > sellSignals THEN "BUY" ELSE "SELL",
         confidence |-> Rat(SumConfidence(signals) * Abs(buySignals - sellSignals),
                            Len(signals) * Len(signals)),
         riskReward |-> signals[1].riskReward,
         consensus |-> TRUE]

RECURSIVE CombineGroups(_, _)
\* combineSignals: one consensus per type, kept if its confidence > 0.6
\* (enhanceWithRisk changes positionSize and stopLoss only)
CombineGroups(signals, types) ==
    IF types = <<>> THEN <<>>
    ELSE LET groupSignals == SelectSeq(signals, LAMBDA x : x.type = types[1])
             consensusSignal == ProfileConsensus(groupSignals)
         IN  (IF RatLess(RatInt(60), consensusSignal.confidence)
              THEN <<consensusSignal>> ELSE <<>>)
             \o CombineGroups(signals, Tail(types))

\* SignalGenerator.combineSignals
combineSignals(signals) == CombineGroups(signals, TypesInOrder(signals, {}))

\* SignalGenerator.filterSignals
filterSignals(signals, riskScore) ==
    SelectSeq(signals, LAMBDA x : /\ ~RatLess(x.confidence, RatInt(60))
                                  /\ ~(riskScore > 80)
                                  /\ ~(x.riskReward < 150))

\* getFallbackSignals of the profile generator
ProfileFallbackSignals ==
    <<[type |-> "NO_SIGNAL", direction |-> "HOLD", confidence |-> RatZero,
       riskReward |-> 0, consensus |-> FALSE]>>

\* SignalGenerator.generateSignals for a window of 50 candles or more
generateProfileSignals(strategy, timeframe, allSignals, risk) ==
    LET strategyConfig == StrategyConfig(strategy)
        filteredSignals == ProfileFilter(allSignals, strategyConfig)
    IN  IF timeframe \notin strategyConfig.timeframes THEN <<>>
        ELSE IF risk.throws THEN ProfileFallbackSignals
        ELSE filterSignals(combineSignals(filteredSignals), risk.riskScore)

ProfileInit ==
    /\ pfStrategy \in StrategyNames
    /\ pfTimeframe \in {"1m", "1h"}
    /\ pfSignals \in SeqsUpTo(SourceSignals, MaxSignals)
    /\ pfRisk \in RiskOutcomes
    /\ pfCalled = FALSE
    /\ pfReturned = <<>>
    /\ pfThrew = FALSE

ProfileIdle ==
    /\ pfStrategy = "daytrading"
    /\ pfTimeframe = "1h"
    /\ pfSignals = <<>>
    /\ pfRisk = [throws |-> FALSE, riskScore |-> 50]
    /\ pfCalled = FALSE
    /\ pfReturned = <<>>
    /\ pfThrew = FALSE

\* SignalGenerator.generateSignals({ ..., strategy }); the body is one
\* try/catch whose catch returns, so the call never rejects
GenerateProfileSignals ==
    /\ ~pfCalled
    /\ pfCalled' = TRUE
    /\ pfReturned' = generateProfileSignals(pfStrategy, pfTimeframe, pfSignals, pfRisk)
    /\ pfThrew' = FALSE
    /\ UNCHANGED <<pfStrategy, pfTimeframe, pfSignals, pfRisk>>
    /\ UNCHANGED pfOthers

----------------------------------------------------------------------------
(* SMC top-down strategy *)

\* longest zigzag body of a 15m or 1m sequence
MaxBody == 20

\* const w = 3
SwingWidth == 3

\* if (inside.length < 20) return false
MinInside == 20

\* the candles of a 4h sequence
H4Shapes ==
    { Candle(15, 16, 13, 14),     \* down candle
      Candle(14, 18, 14, 17),     \* up candle closing above the down candle's high
      Candle(15, 15, 11, 12),     \* down candle closing below the up candle's low
      Candle(15, 15, 15, 15) }    \* flat

\* 4h sequences: nothing, or two candles between flat ones
H4Sequences ==
    {<<>>} \cup
    { <<Candle(15, 15, 15, 15), Candle(15, 15, 15, 15), b, c, Candle(15, 15, 15, 15),
        Candle(15, 15, 15, 15)>> : b \in H4Shapes, c \in H4Shapes }

\* candle k of a zigzag: every fourth high is a peak, every fourth low (two
\* bars later) a trough; peaks rise, troughs fall, or neither; shift moves
\* the whole sequence away from the zones
ZigzagCandle(k, kind, shift) ==
    LET peak == k % 4 = 0
        trough == k % 4 = 2
        high == IF peak THEN (IF kind = "rising" THEN 17 + (k \div 4) ELSE 17) ELSE 16
        low == IF trough /\ kind = "falling" THEN 13 - (k \div 4) ELSE 14
    IN  Candle(15 + shift, high + shift, low + shift, 15 + shift)

\* a 15m or 1m sequence: a zigzag of n candles, then the tail
Zigzag(n, kind, shift, tail) == [k \in 1..n |-> ZigzagCandle(k, kind, shift)] \o tail

\* the tails: none, or a down candle and the up candle closing above its high
Tails == { <<>>, <<Candle(15, 16, 13, 14), Candle(14, 18, 14, 17)>> }

LowerSequences ==
    {<<>>} \cup
    { Zigzag(n, kind, shift, tail) :
        n \in (MaxBody - 2) .. MaxBody, kind \in {"rising", "flat", "falling"},
        shift \in {0, 20}, tail \in Tails }

\* the zones detectZones pushes at index i (1-based)
ZonesAt(data, i) ==
    LET b == data[i]
        c == data[i + 1]
    IN  (IF b.close < b.open /\ c.close > c.open /\ c.close > b.high
         THEN <<[type |-> "demand", top |-> b.open, bottom |-> b.low]>> ELSE <<>>)
        \o
        (IF b.close > b.open /\ c.close < c.open /\ c.close < b.low
         THEN <<[type |-> "supply", top |-> b.high, bottom |-> b.open]>> ELSE <<>>)

RECURSIVE ZonesFrom(_, _)
\* for (let i = 2; i < data.length - 2; i++), 0-based
ZonesFrom(data, i) ==
    IF i > Len(data) - 2 THEN <<>>
    ELSE ZonesAt(data, i) \o ZonesFrom(data, i + 1)

\* SMCStrategy.detectZones
detectZones(data) == ZonesFrom(data, 3)

RECURSIVE NearestFrom(_, _, _, _)
\* the loop of pickNearestZone; distances are doubled: |2 price - (top + bottom)|
NearestFrom(zones, price, best, bestDist) ==
    IF zones = <<>> THEN best
    ELSE LET d == Abs(2 * price - (zones[1].top + zones[1].bottom))
         IN  IF best = <<>> \/ d < bestDist
             THEN NearestFrom(Tail(zones), price, <<zones[1]>>, d)
             ELSE NearestFrom(Tail(zones), price, best, bestDist)

\* SMCStrategy.pickNearestZone: <<>> for null
pickNearestZone(zones, price) == NearestFrom(zones, price, <<>>, 0)

RECURSIVE SwingsFrom(_, _, _)
\* for (let i = w; i < arr.length - w; i++), 0-based
SwingsFrom(arr, type, i) ==
    IF i > Len(arr) - SwingWidth THEN <<>>
    ELSE LET v == arr[i]
             left == (i - SwingWidth) .. (i - 1)
             right == (i + 1) .. (i + SwingWidth)
             isSwing == IF type = "high"
                        THEN (\A k \in left : arr[k] < v) /\ (\A k \in right : arr[k] < v)
                        ELSE (\A k \in left : arr[k] > v) /\ (\A k \in right : arr[k] > v)
         IN  (IF isSwing THEN <<v>> ELSE <<>>) \o SwingsFrom(arr, type, i + 1)

\* SMCStrategy.findSwings: the swing values
findSwings(arr, type) == SwingsFrom(arr, type, SwingWidth + 1)

\* SMCStrategy.hasCHOCHInsideZone
hasCHOCHInsideZone(data, zone) ==
    LET inside == SelectSeq(data, LAMBDA d : d.low <= zone.top /\ d.high >= zone.bottom)
        swingsH == findSwings([k \in DOMAIN inside |-> inside[k].high], "high")
        swingsL == findSwings([k \in DOMAIN inside |-> inside[k].low], "low")
        bosUp == Len(swingsH) >= 3 /\ swingsH[Len(swingsH)] > swingsH[Len(swingsH) - 1]
        bosDn == Len(swingsL) >= 3 /\ swingsL[Len(swingsL)] < swingsL[Len(swingsL) - 1]
    IN  IF Len(inside) < MinInside THEN FALSE ELSE bosUp \/ bosDn

\* the zone of the pair at index i (1-based) and i + 1, <<>> if it is no impulse
ImpulseZoneAt(data, i) ==
    IF i < 1 \/ i + 1 > Len(data) THEN <<>>
    ELSE LET b == data[i]
             c == data[i + 1]
         IN  IF b.close < b.open /\ c.close > c.open /\ c.close > b.high
             THEN <<[top |-> b.open, bottom |-> b.low]>>
             ELSE IF b.close > b.open /\ c.close < c.open /\ c.close < b.low
             THEN <<[top |-> b.high, bottom |-> b.open]>>
             ELSE <<>>

\* SMCStrategy.deriveReactionZoneFromCHOCH: i = n - 3, n - 2 (0-based); <<>> for null
deriveReactionZoneFromCHOCH(data) ==
    LET n == Len(data)
    IN  IF ImpulseZoneAt(data, n - 2) # <<>> THEN ImpulseZoneAt(data, n - 2)
        ELSE ImpulseZoneAt(data, n - 1)

\* SMCStrategy.sweptNearbyLiquidity
sweptNearbyLiquidity(data) ==
    LET n == Len(data)
    IN  IF n < 5 THEN FALSE
        ELSE LET curr == data[n]
                 prev == (n - 4) .. (n - 1)
                 prevHigh == CHOOSE x \in {data[k].high : k \in prev} :
                                \A k \in prev : data[k].high <= x
                 prevLow == CHOOSE x \in {data[k].low : k \in prev} :
                               \A k \in prev : data[k].low >= x
             IN  \/ curr.high > prevHigh /\ curr.close < prevHigh
                 \/ curr.low < prevLow /\ curr.close > prevLow

\* SMCStrategy.findFVG
findFVG(data) ==
    LET n == Len(data)
    IN  IF n < 2 THEN FALSE
        ELSE data[n].low > data[n - 1].high \/ data[n].high < data[n - 1].low

RECURSIVE EntryZoneFrom(_, _)
\* for (let i = data.length - 4; i >= data.length - 50 && i > 2; i--), 0-based;
\* i is the 1-based index here
EntryZoneFrom(data, i) ==
    IF ~(i - 1 >= Len(data) - 50 /\ i - 1 > 2) THEN <<>>
    ELSE IF ImpulseZoneAt(data, i) # <<>> THEN ImpulseZoneAt(data, i)
    ELSE EntryZoneFrom(data, i - 1)

\* SMCStrategy.detectEntryZone: <<>> for null
detectEntryZone(data) == EntryZoneFrom(data, Len(data) - 3)

\* steps 5 and 6: the signal; stopLoss in thousandths and takeProfit in
\* hundredths of a price unit, confidence in hundredths
SMCSignal(zone, m15Zone, d1) ==
    LET swept == sweptNearbyLiquidity(d1)
        fvg == findFVG(d1)
        entryZone == IF detectEntryZone(d1) # <<>> THEN detectEntryZone(d1)[1]
                     ELSE m15Zone
        direction == IF zone.type = "demand" THEN "BUY" ELSE "SELL"
        entryPrice == IF direction = "BUY" THEN entryZone.bottom ELSE entryZone.top
        baseConfidence == 60 + (IF swept THEN 10 ELSE 0) + (IF fvg THEN 10 ELSE 0)
    IN  [type |-> "SMC_CHOCH_STACKED",
         direction |-> direction,
         entryPrice |-> entryPrice,
         stopLoss |-> IF direction = "BUY" THEN entryZone.bottom * 999
                      ELSE entryZone.top * 1001,
         takeProfit |-> IF direction = "BUY" THEN entryPrice * 102 ELSE entryPrice * 98,
         confidence |-> Min(95, baseConfidence),
         riskReward |-> 200]

generateSMCSignals_WithoutLowerConfirmation(d4, d15, d1) ==
    IF d4 = <<>> \/ d15 = <<>> \/ d1 = <<>> THEN <<>>
    ELSE LET h4Zones == detectZones(d4)
             latestH4Zone == pickNearestZone(h4Zones, d15[Len(d15)].close)
         IN  IF h4Zones = <<>> \/ latestH4Zone = <<>> THEN <<>>
             ELSE IF ~hasCHOCHInsideZone(d15, latestH4Zone[1]) THEN <<>>
             ELSE LET m15Zone == deriveReactionZoneFromCHOCH(d15)
                  IN  IF m15Zone = <<>> THEN <<>>
                      ELSE <<SMCSignal(latestH4Zone[1], m15Zone[1], d1)>>

\* SMCStrategy.generateSMCSignals
generateSMCSignals(d4, d15, d1) ==
    IF d4 = <<>> \/ d15 = <<>> \/ d1 = <<>> THEN <<>>
    ELSE LET h4Zones == detectZones(d4)
             latestH4Zone == pickNearestZone(h4Zones, d15[Len(d15)].close)
         IN  IF h4Zones = <<>> \/ latestH4Zone = <<>> THEN <<>>
             ELSE IF ~hasCHOCHInsideZone(d15, latestH4Zone[1]) THEN <<>>
             ELSE LET m15Zone == deriveReactionZoneFromCHOCH(d15)
                  IN  IF m15Zone = <<>> THEN <<>>
                      ELSE IF ~hasCHOCHInsideZone(d1, m15Zone[1]) THEN <<>>
                      ELSE <<SMCSignal(latestH4Zone[1], m15Zone[1], d1)>>

SMCInit ==
    /\ h4 \in H4Sequences
    /\ m15 \in LowerSequences
    /\ m1 \in LowerSequences
    /\ smcCalled = FALSE
    /\ smcReturned = <<>>

SMCIdle ==
    /\ h4 = <<>>
    /\ m15 = <<>>
    /\ m1 = <<>>
    /\ smcCalled = FALSE
    /\ smcReturned = <<>>

\* SMCStrategy.generateSMCSignals({ symbol, marketDataService })
GenerateSMCSignals ==
    /\ ~smcCalled
    /\ smcCalled' = TRUE
    /\ smcReturned' = generateSMCSignals(h4, m15, m1)
    /\ UNCHANGED <<h4, m15, m1>>
    /\ UNCHANGED smcOthers

\* the call when a getMarketData rejects: the catch logs and returns []
GenerateSMCSignalsFetchFails ==
    /\ ~smcCalled
    /\ smcCalled' = TRUE
    /\ smcReturned' = <<>>
    /\ UNCHANGED <<h4, m15, m1>>
    /\ UNCHANGED smcOthers

----------------------------------------------------------------------------
(* Detector-driven signal generator *)

\* most generateSignals calls followed
MaxRounds == 2

\* this.strategies[...].detectors, in order
ProfileDetectors ==
    [scalping |-> <<"crt", "pure_scalping", "bos">>,
     daytrading |-> <<"crt", "pure_crt", "choch">>,
     swingtrading |-> <<"crt", "choch">>]

DetectorNames == {"crt", "pure_scalping", "bos", "pure_crt", "choch"}

\* what a detector does for a window: it throws, finds nothing, or finds a signal
DetectorOutcomes == {"throws", "none", "signal"}

\* wall-clock hours (UTC): one outside the sessions, one inside
Hours == {3, 10}

\* PureScalpingStrategy.isTradingSession: london 6-18, newyork 12-22
isTradingSession(hours) ==
    (hours >= 6 /\ hours < 18) \/ (hours >= 12 /\ hours < 22)

\* the signal a detector finds; confidence and riskReward in hundredths
DetectorSignal(name) ==
    [detector |-> name, direction |-> "BUY", confidence |-> 70, riskReward |-> 200]

\* this.strategies[strategy] || this.strategies.scalping
DetectorConfig(strategy) ==
    IF strategy \in DOMAIN ProfileDetectors THEN strategy ELSE "scalping"

\* whether the switch calls the detector for this timeframe
DetectorRuns(name, timeframe) ==
    CASE name = "bos" -> timeframe = "1m"
      [] name = "pure_scalping" -> timeframe \in {"1m", "5m"}
      [] OTHER -> TRUE

\* one pass of the detector loop: the signals the detector adds to allSignals;
\* a throw is caught by the try/catch of the pass and adds nothing
DetectorPass(name, config, timeframe, outcomes, hour) ==
    IF ~DetectorRuns(name, timeframe) THEN <<>>
    ELSE IF outcomes[name] = "throws" THEN <<>>
    ELSE IF name = "pure_scalping" /\ ~isTradingSession(hour) THEN <<>>
    ELSE IF outcomes[name] = "none" THEN <<>>
    ELSE ProfileFilter(<<DetectorSignal(name)>>, Profiles[config])

RECURSIVE DetectorLoop(_, _, _, _, _)
\* for (const detector of strategyConfig.detectors)
DetectorLoop(detectors, config, timeframe, outcomes, hour) ==
    IF detectors = <<>> THEN <<>>
    ELSE DetectorPass(detectors[1], config, timeframe, outcomes, hour)
         \o DetectorLoop(Tail(detectors), config, timeframe, outcomes, hour)

\* SignalGenerator.generateSignals of the detector-driven generator, for a
\* window of 20 candles or more
generateDetectorSignals(strategy, timeframe, outcomes, hour) ==
    LET config == DetectorConfig(strategy)
    IN  DetectorLoop(ProfileDetectors[config], config, timeframe, outcomes, hour)

DetectorsInit ==
    /\ rdStrategy \in StrategyNames
    /\ rdTimeframe \in {"1m", "1h"}
    /\ rdOutcomes \in [DetectorNames -> DetectorOutcomes]
    /\ rdHour \in Hours
    /\ rdCalls = <<>>

DetectorsIdle ==
    /\ rdStrategy = "scalping"
    /\ rdTimeframe = "1m"
    /\ rdOutcomes = [d \in DetectorNames |-> "none"]
    /\ rdHour = 3
    /\ rdCalls = <<>>

\* the wall clock moves to another hour
HourPasses ==
    /\ rdHour' \in Hours \ {rdHour}
    /\ UNCHANGED <<rdStrategy, rdTimeframe, rdOutcomes, rdCalls>>
    /\ UNCHANGED rdOthers

\* SignalGenerator.generateSignals({ symbol, timeframe, marketData, strategy })
GenerateDetectorSignals ==
    /\ Len(rdCalls) < MaxRounds
    /\ rdCalls' = Append(rdCalls,
                     [hour |-> rdHour,
                      returned |-> generateDetectorSignals(rdStrategy, rdTimeframe,
                                                           rdOutcomes, rdHour)])
    /\ UNCHANGED <<rdStrategy, rdTimeframe, rdOutcomes, rdHour>>
    /\ UNCHANGED rdOthers

----------------------------------------------------------------------------
(* Signal generator of signal-generator.js *)

\* the sources whose signals generateSignals combines
SourceNames == {"choch", "technical", "ml"}

\* the signal a source finds
SourceSignal(name) ==
    [type |-> CASE name = "choch" -> "CHOCH_BULLISH"
                [] name = "technical" -> "MA_GOLDEN_CROSS"
                [] OTHER -> "ML_PREDICTION",
     direction |-> "BUY", confidence |-> 75, riskReward |-> 200]

\* what a source hands to combineSignals when it does not throw
SourceSignalsOf(name, outcomes) ==
    IF outcomes[name] = "signal" THEN <<SourceSignal(name)>> ELSE <<>>

\* whether an exception leaves the try block of generateSignals:
\* generateMLSignals catches its own and returns an empty list
RoundThrows_Never(outcomes, risk) == FALSE

RoundThrows(outcomes, risk) ==
    outcomes["choch"] = "throws" \/ outcomes["technical"] = "throws" \/ risk.throws

\* SignalGenerator.generateSignals for a window of 50 candles or more
generateSourceSignals(outcomes, risk) ==
    IF RoundThrows(outcomes, risk)
    THEN ProfileFallbackSignals
    ELSE filterSignals(combineSignals(SourceSignalsOf("choch", outcomes)
                                      \o SourceSignalsOf("technical", outcomes)
                                      \o SourceSignalsOf("ml", outcomes)),
                       risk.riskScore)

SourcesInit ==
    /\ sgOutcomes \in [SourceNames -> DetectorOutcomes]
    /\ sgRisk \in RiskOutcomes
    /\ sgCalled = FALSE
    /\ sgReturned = <<>>

SourcesIdle ==
    /\ sgOutcomes = [n \in SourceNames |-> "none"]
    /\ sgRisk = [throws |-> FALSE, riskScore |-> 50]
    /\ sgCalled = FALSE
    /\ sgReturned = <<>>

\* SignalGenerator.generateSignals({ symbol, timeframe, marketData, ... })
GenerateSourceSignals ==
    /\ ~sgCalled
    /\ sgCalled' = TRUE
    /\ sgReturned' = generateSourceSignals(sgOutcomes, sgRisk)
    /\ UNCHANGED <<sgOutcomes, sgRisk>>
    /\ UNCHANGED sgOthers

----------------------------------------------------------------------------
(* Market data services *)

\* most getMarketData calls followed
MaxFetches == 2

\* largest limit argument and longest provider history
MaxLimit == 2

\* this.cacheTTL
CacheTTL == 60000

\* a candle; the synthetic mark is not a field of the program's candles, it
\* records which code produced the candle
MarketCandle(k, made) == [timestamp |-> k, synthetic |-> made]

\* the candles the provider answers with: at most limit, at most its history
ProviderCandles(history, limit) ==
    [k \in 1..Min(history, limit) |-> MarketCandle(k, FALSE)]

\* generateSyntheticData: limit random candles
generateSyntheticData(limit) ==
    [k \in 1..limit |-> MarketCandle(k, TRUE)]

\* getMarketData of the Deriv service: the catch returns []
getMarketData_Deriv(up, history, limit) ==
    IF up THEN ProviderCandles(history, limit) ELSE <<>>

\* whether the cached service answers from this.cache
CacheFresh(cache, clock) ==
    cache # <<>> /\ clock - cache[1].timestamp < CacheTTL

\* the catch of the cached service's getMarketData
ProviderFailed(limit) == generateSyntheticData(limit)

\* getMarketData of the cached service: the data it returns
getMarketData_Cached(useReal, up, history, limit, cache, clock) ==
    IF CacheFresh(cache, clock) THEN cache[1].data
    ELSE IF useReal
         THEN IF up THEN ProviderCandles(history, limit) ELSE ProviderFailed(limit)
         ELSE generateSyntheticData(limit)

\* getMarketData of the cached service: this.cache after the call
CacheAfter(useReal, up, history, limit, cache, clock) ==
    IF CacheFresh(cache, clock) \/ (useReal /\ ~up) THEN cache
    ELSE <<[data |-> getMarketData_Cached(useReal, up, history, limit, cache, clock),
            timestamp |-> clock]>>

MarketDataInit ==
    /\ mdUseReal \in BOOLEAN
    /\ mdUp \in BOOLEAN
    /\ mdHistory \in 0..MaxLimit
    /\ mdLimit \in 1..MaxLimit
    /\ mdCache = <<>>
    /\ mdNow = 0
    /\ mdResults = <<>>

MarketDataIdle ==
    /\ mdUseReal = FALSE
    /\ mdUp = TRUE
    /\ mdHistory = 0
    /\ mdLimit = 1
    /\ mdCache = <<>>
    /\ mdNow = 0
    /\ mdResults = <<>>

\* the upstream provider goes down or comes back
ProviderChanges ==
    /\ mdUp' = ~mdUp
    /\ UNCHANGED <<mdUseReal, mdHistory, mdLimit, mdCache, mdNow, mdResults>>
    /\ UNCHANGED mdOthers

\* half a cache lifetime passes
ClockAdvances ==
    /\ mdNow < MaxFetches * CacheTTL
    /\ mdNow' = mdNow + CacheTTL \div 2
    /\ UNCHANGED <<mdUseReal, mdUp, mdHistory, mdLimit, mdCache, mdResults>>
    /\ UNCHANGED mdOthers

\* MarketDataService.getMarketData(symbol, timeframe, limit), Deriv service
GetMarketDataDeriv ==
    /\ Len(mdResults) < MaxFetches
    /\ mdResults' = Append(mdResults,
                       [service |-> "deriv", up |-> mdUp, cached |-> FALSE, threw |-> FALSE,
                        data |-> getMarketData_Deriv(mdUp, mdHistory, mdLimit)])
    /\ UNCHANGED <<mdUseReal, mdUp, mdHistory, mdLimit, mdCache, mdNow>>
    /\ UNCHANGED mdOthers

\* MarketDataService.getMarketData(symbol, timeframe, limit), cached service
GetMarketDataCached ==
    /\ Len(mdResults) < MaxFetches
    /\ mdResults' = Append(mdResults,
                       [service |-> "cached", up |-> mdUp,
                        cached |-> CacheFresh(mdCache, mdNow), threw |-> FALSE,
                        data |-> getMarketData_Cached(mdUseReal, mdUp, mdHistory, mdLimit,
                                                      mdCache, mdNow)])
    /\ mdCache' = CacheAfter(mdUseReal, mdUp, mdHistory, mdLimit, mdCache, mdNow)
    /\ UNCHANGED <<mdUseReal, mdUp, mdHistory, mdLimit, mdNow>>
    /\ UNCHANGED mdOthers

----------------------------------------------------------------------------
(* Market structure from swings *)

\* most swing highs and most swing lows of a window
MaxSwings == 3

\* swing prices
SwingPrices == {1, 2, 3}

\* periods of the two moving averages of determineTrend
FastPeriod == 20

SlowPeriod == 50

\* the swings determineTrendFromSwings looks at
TrendLookback == 5

\* closes of a window: flat, or stepping up or down over the last 10 candles
CloseSeries ==
    { [k \in 1 .. n |-> IF k <= n - 10 THEN a ELSE b] :
        n \in {30, SlowPeriod}, a \in {1, 2}, b \in {1, 2} }

\* arr.slice(-n)
LastOf(arr, n) ==
    IF Len(arr) <= n THEN arr ELSE SubSeq(arr, Len(arr) - n + 1, Len(arr))

\* how many swings are above the one before them
CountRising(swings) ==
    Cardinality({ i \in 2 .. Len(swings) : swings[i] > swings[i - 1] })

\* how many swings are below the one before them
CountFalling(swings) ==
    Cardinality({ i \in 2 .. Len(swings) : swings[i] < swings[i - 1] })

countHigherHighs(swingHighs) == CountRising(swingHighs)

countHigherLows(swingLows) == CountRising(swingLows)

countLowerHighs(swingHighs) == CountFalling(swingHighs)

countLowerLows(swingLows) == CountFalling(swingLows)

\* CHOCHDetector.determineTrendFromSwings (part_001)
determineTrendFromSwings(swingHighs, swingLows) ==
    LET hh == countHigherHighs(LastOf(swingHighs, TrendLookback))
        hl == countHigherLows(LastOf(swingLows, TrendLookback))
        lh == countLowerHighs(LastOf(swingHighs, TrendLookback))
        ll == countLowerLows(LastOf(swingLows, TrendLookback))
    IN  IF hh + hl >= 3 /\ hh >= 1 /\ hl >= 1 THEN "bullish"
        ELSE IF lh + ll >= 3 /\ lh >= 1 /\ ll >= 1 THEN "bearish"
        ELSE "neutral"

RECURSIVE SumLast(_, _)
\* the sum of the last n values
SumLast(values, n) ==
    IF n = 0 THEN 0 ELSE values[Len(values)] + SumLast(SubSeq(values, 1, Len(values) - 1), n - 1)

\* CHOCHDetector.determineTrend (backtester.js): the last 20-period average
\* against the last 50-period average, compared as cross products
determineTrend(closes) ==
    IF Len(closes) < FastPeriod \/ Len(closes) < SlowPeriod THEN "neutral"
    ELSE LET fast == SumLast(closes, FastPeriod) * SlowPeriod
             slow == SumLast(closes, SlowPeriod) * FastPeriod
         IN  IF fast > slow THEN "bullish"
             ELSE IF fast < slow THEN "bearish"
             ELSE "neutral"

\* BOSStrategy.identifyMarketStructure: the trend it derives from its swings
identifyMarketStructure(swingHighs, swingLows) ==
    IF Len(swingHighs) >= 2 /\ Len(swingLows) >= 2
    THEN LET h1 == swingHighs[Len(swingHighs)]
             h2 == swingHighs[Len(swingHighs) - 1]
             l1 == swingLows[Len(swingLows)]
             l2 == swingLows[Len(swingLows) - 1]
         IN  IF h1 > h2 /\ l1 > l2 THEN "uptrend"
             ELSE IF h1 < h2 /\ l1 < l2 THEN "downtrend"
             ELSE IF h1 > h2 /\ l1 < l2 THEN "ranging"
             ELSE "neutral"
    ELSE "neutral"

\* CHOCHDetector.detectBOS
detectBOS(swingHighs, swingLows) ==
    [bullish |-> Len(swingHighs) >= 2
                 /\ swingHighs[Len(swingHighs)] > swingHighs[Len(swingHighs) - 1],
     bearish |-> Len(swingLows) >= 2
                 /\ swingLows[Len(swingLows)] < swingLows[Len(swingLows) - 1]]

\* CHOCHDetector.detectCHOCH
detectCHOCH(swingHighs, swingLows) ==
    [bullish |-> Len(swingHighs) >= 3
                 /\ swingHighs[Len(swingHighs)] > swingHighs[Len(swingHighs) - 1],
     bearish |-> Len(swingLows) >= 3
                 /\ swingLows[Len(swingLows)] < swingLows[Len(swingLows) - 1]]

StructureInit ==
    /\ stHighs \in SeqsUpTo(SwingPrices, MaxSwings)
    /\ stLows \in SeqsUpTo(SwingPrices, MaxSwings)
    /\ stCloses \in CloseSeries
    /\ stCalled = FALSE
    /\ stStructure = <<>>

StructureIdle ==
    /\ stHighs = <<>>
    /\ stLows = <<>>
    /\ stCloses = <<>>
    /\ stCalled = FALSE
    /\ stStructure = <<>>

\* CHOCHDetector.analyzeMarketStructure(data) of part_001 and of
\* backtester.js, and BOSStrategy.identifyMarketStructure, on the same swings
AnalyzeMarketStructure ==
    /\ ~stCalled
    /\ stCalled' = TRUE
    /\ stStructure' = [trend |-> determineTrendFromSwings(stHighs, stLows),
                       averageTrend |-> determineTrend(stCloses),
                       bosTrend |-> identifyMarketStructure(stHighs, stLows),
                       breakOfStructure |-> detectBOS(stHighs, stLows),
                       changeOfCharacter |-> detectCHOCH(stHighs, stLows)]
    /\ UNCHANGED <<stHighs, stLows, stCloses>>
    /\ UNCHANGED stOthers

----------------------------------------------------------------------------
(* Risk enhancement of a signal *)

\* largest ATR of a risk assessment, in price units
MaxATR == 2

\* signals as the sources build them around a latest price of 100: stop 2%
\* and target 3% away (riskReward 1.5), or stop 1% and target 2% away
\* (riskReward 2.0); riskReward and confidence in hundredths
EnhanceSignals ==
    { [direction |-> "BUY", entryPrice |-> 100, stopLoss |-> 98, takeProfit |-> 103,
       riskReward |-> 150, confidence |-> c] : c \in {65, 80} }
    \cup { [direction |-> "SELL", entryPrice |-> 100, stopLoss |-> 102, takeProfit |-> 97,
            riskReward |-> 150, confidence |-> c] : c \in {65, 80} }
    \cup { [direction |-> "BUY", entryPrice |-> 100, stopLoss |-> 99, takeProfit |-> 102,
            riskReward |-> 200, confidence |-> c] : c \in {65, 80} }
    \cup { [direction |-> "SELL", entryPrice |-> 100, stopLoss |-> 101, takeProfit |-> 98,
            riskReward |-> 200, confidence |-> c] : c \in {65, 80} }

\* risk scores in hundredths, on both sides of the 0.7 threshold
RiskScores == {50, 70, 71, 90}

\* enhanceWithRisk with the BUY stop used for both directions
enhanceWithRisk_StopBelowEntry(signal, riskAssessment) ==
    [signal EXCEPT !.stopLoss = signal.entryPrice - riskAssessment.atr * 2]
        @@ [positionSize |-> IF riskAssessment.riskScore > 70 THEN 50 ELSE 100]

\* SignalGenerator.enhanceWithRisk; positionSize in hundredths
enhanceWithRisk(signal, riskAssessment) ==
    LET sized == signal @@ [positionSize |->
                               IF riskAssessment.riskScore > 70 THEN 50 ELSE 100]
    IN  IF riskAssessment.atr # 0
        THEN [sized EXCEPT !.stopLoss =
                 IF signal.direction = "BUY"
                 THEN signal.entryPrice - riskAssessment.atr * 2
                 ELSE signal.entryPrice + riskAssessment.atr * 2]
        ELSE sized

EnhanceInit ==
    /\ enSignal \in EnhanceSignals
    /\ enRisk \in [riskScore : RiskScores, atr : 0 .. MaxATR]
    /\ enCalled = FALSE
    /\ enEnhanced = <<>>

EnhanceIdle ==
    /\ enSignal = <<>>
    /\ enRisk = <<>>
    /\ enCalled = FALSE
    /\ enEnhanced = <<>>

\* SignalGenerator.enhanceWithRisk(signal, riskAssessment)
EnhanceWithRisk ==
    /\ ~enCalled
    /\ enCalled' = TRUE
    /\ enEnhanced' = enhanceWithRisk(enSignal, enRisk)
    /\ UNCHANGED <<enSignal, enRisk>>
    /\ UNCHANGED enOthers

----------------------------------------------------------------------------
(* Signals of one CRT scan *)

\* most symbols of a scan: more than one batch
MaxSymbols == 6

\* a pattern of detectCRTPatterns; confidence in hundredths
Pattern(entry, stopLoss, takeProfit, confidence) ==
    [entry |-> entry, stopLoss |-> stopLoss, takeProfit |-> takeProfit,
     confidence |-> confidence]

\* what detectCRTPatterns finds for a symbol: nothing (also standing for
\* insufficient data and for a failed fetch), or patterns on either side of the
\* confidence and risk/reward thresholds
SymbolPatterns ==
    { <<>>,
      <<Pattern(100, 98, 103, 70)>>,
      <<Pattern(100, 98, 102, 70), Pattern(100, 98, 104, 50)>>,
      <<Pattern(100, 98, 106, 60), Pattern(100, 99, 101, 70), Pattern(50, 49, 52, 70)>> }

\* isValidSignal without the risk/reward test
isValidSignal_ConfidenceOnly(pattern) == ~(pattern.confidence < 60)

\* CRTDetector.isValidSignal, for entry # stopLoss
isValidSignal(pattern) ==
    LET risk == pattern.entry - pattern.stopLoss
        reward == pattern.takeProfit - pattern.entry
    IN  /\ ~(pattern.confidence < 60)
        /\ ~RatLess(Rat(reward, risk), Rat(3, 2))

\* formatSignal: the pattern with its symbol; timestamp is the position of
\* the pattern in the symbol's candles
formatSignal(patterns, k, symbol) ==
    [pattern |-> patterns[k], symbol |-> symbol, timestamp |-> k, detector |-> "crt"]

\* CRTDetector.scanSymbol: the list of signals, or <<>> for null
scanSymbol(patterns, symbol) ==
    LET valid == SelectSeq([k \in DOMAIN patterns |-> k],
                           LAMBDA k : isValidSignal(patterns[k]))
    IN  [j \in DOMAIN valid |-> formatSignal(patterns, valid[j], symbol)]

RECURSIVE BatchResults(_, _, _)
\* batchResults.flat() without its nulls, for the symbols from to upto
BatchResults(symbols, from, upto) ==
    IF from > upto THEN <<>>
    ELSE scanSymbol(symbols[from], from) \o BatchResults(symbols, from + 1, upto)

ScanSignalsInit ==
    /\ seSymbols \in SeqsUpTo(SymbolPatterns, MaxSymbols)
    /\ sePc = "batch"
    /\ seIndex = 0
    /\ seResults = <<>>
    /\ seEmitted = <<>>

ScanSignalsIdle ==
    /\ seSymbols = <<>>
    /\ sePc = "idle"
    /\ seIndex = 0
    /\ seResults = <<>>
    /\ seEmitted = <<>>

\* one pass of the batch loop: Promise.all over symbols.slice(i, i + BATCH_SIZE)
ScanBatch ==
    /\ sePc = "batch"
    /\ seIndex < Len(seSymbols)
    /\ seResults' = seResults \o BatchResults(seSymbols, seIndex + 1,
                                               Min(seIndex + BATCH_SIZE, Len(seSymbols)))
    /\ seIndex' = seIndex + BATCH_SIZE
    /\ UNCHANGED <<seSymbols, sePc, seEmitted>>
    /\ UNCHANGED seOthers

\* results.forEach(signal => { if (signal) this.emit('signal', signal) })
EmitSignals ==
    /\ sePc = "batch"
    /\ seIndex >= Len(seSymbols)
    /\ seEmitted' = seResults
    /\ sePc' = "done"
    /\ UNCHANGED <<seSymbols, seIndex, seResults>>
    /\ UNCHANGED seOthers

----------------------------------------------------------------------------
(* WebSocketService *)

\* most sockets created in a run
MaxSockets == 6

\* this.maxReconnectAttempts
maxReconnectAttempts == 5

\* this.ws = new WebSocket(...): the socket this.ws referred to lives on
NewSocket ==
    /\ wsCreated < MaxSockets
    /\ wsCreated' = wsCreated + 1
    /\ ws' = "connecting"
    /\ wsConnecting' = wsConnecting + (IF ws = "connecting" THEN 1 ELSE 0)
    /\ wsOpen' = wsOpen + (IF ws = "open" THEN 1 ELSE 0)

\* WebSocketService.attemptReconnect
attemptReconnect ==
    IF reconnectAttempts >= maxReconnectAttempts
    THEN UNCHANGED <<reconnectAttempts, wsTimers, wsResumed>>
    ELSE /\ reconnectAttempts' = reconnectAttempts + 1
         /\ wsTimers' = wsTimers + 1
         /\ wsResumed' = (wsResumed \/ wsStopped)

WebSocketInit ==
    /\ ws = "none"
    /\ wsConnecting = 0
    /\ wsOpen = 0
    /\ wsClosing = 0
    /\ isConnected = FALSE
    /\ reconnectAttempts = 0
    /\ wsTimers = 0
    /\ wsCreated = 0
    /\ wsStopped = FALSE
    /\ wsResumed = FALSE

WebSocketIdle == WebSocketInit

\* connect() called by the user of the service
Connect ==
    /\ NewSocket
    /\ wsStopped' = FALSE
    /\ wsResumed' = FALSE
    /\ UNCHANGED <<wsClosing, isConnected, reconnectAttempts, wsTimers>>
    /\ UNCHANGED wsOthers

\* the setTimeout callback of attemptReconnect: this.connect()
ReconnectTimerFires ==
    /\ wsTimers > 0
    /\ wsTimers' = wsTimers - 1
    /\ NewSocket
    /\ wsResumed' = (wsResumed \/ wsStopped)
    /\ UNCHANGED <<wsClosing, isConnected, reconnectAttempts, wsStopped>>
    /\ UNCHANGED wsOthers

\* the 'open' handler, on the socket of this.ws or on an earlier one
SocketOpens ==
    /\ \/ ws = "connecting" /\ ws' = "open" /\ UNCHANGED wsConnecting
             /\ UNCHANGED wsOpen
       \/ wsConnecting > 0 /\ wsConnecting' = wsConnecting - 1 /\ wsOpen' = wsOpen + 1
             /\ UNCHANGED ws
    /\ isConnected' = TRUE
    /\ reconnectAttempts' = 0
    /\ UNCHANGED <<wsClosing, wsTimers, wsCreated, wsStopped, wsResumed>>
    /\ UNCHANGED wsOthers

\* the 'close' handler: the connection failed, was dropped, or close() was
\* called on the socket
SocketCloses ==
    /\ \/ ws \in {"connecting", "open"} /\ ws' = "closed"
             /\ UNCHANGED <<wsConnecting, wsOpen, wsClosing>>
       \/ wsConnecting > 0 /\ wsConnecting' = wsConnecting - 1
             /\ UNCHANGED <<ws, wsOpen, wsClosing>>
       \/ wsOpen > 0 /\ wsOpen' = wsOpen - 1
             /\ UNCHANGED <<ws, wsConnecting, wsClosing>>
       \/ wsClosing > 0 /\ wsClosing' = wsClosing - 1
             /\ UNCHANGED <<ws, wsConnecting, wsOpen>>
    /\ isConnected' = FALSE
    /\ attemptReconnect
    /\ UNCHANGED <<wsCreated, wsStopped>>
    /\ UNCHANGED wsOthers

\* WebSocketService.disconnect
Disconnect ==
    /\ ws # "none"
    /\ wsClosing' = wsClosing + (IF ws \in {"connecting", "open"} THEN 1 ELSE 0)
    /\ ws' = "none"
    /\ isConnected' = FALSE
    /\ wsStopped' = TRUE
    /\ wsResumed' = FALSE
    /\ UNCHANGED <<wsConnecting, wsOpen, reconnectAttempts, wsTimers, wsCreated>>
    /\ UNCHANGED wsOthers

----------------------------------------------------------------------------
(* Specifications: one per component, the other components idle *)

CRTStart == CRTInit /\ ConsIdle /\ BTIdle /\ MitInit /\ SwingIdle /\ GuardIdle /\ ScanInit /\ ProfileIdle /\ SMCIdle
       /\ DetectorsIdle /\ SourcesIdle /\ MarketDataIdle /\ StructureIdle /\ EnhanceIdle /\ ScanSignalsIdle /\ WebSocketIdle

CRTNext == FindCRTSetups \/ DetectCRT \/ DetectPureCRT

SpecCRT == CRTStart /\ [][CRTNext]_vars

ConsStart == ConsInit /\ CRTIdle /\ BTIdle /\ MitInit /\ SwingIdle /\ GuardIdle /\ ScanInit /\ ProfileIdle /\ SMCIdle
       /\ DetectorsIdle /\ SourcesIdle /\ MarketDataIdle /\ StructureIdle /\ EnhanceIdle /\ ScanSignalsIdle /\ WebSocketIdle

ConsNext == CalculateConsensus

SpecConsensus == ConsStart /\ [][ConsNext]_vars

BTStart == BTInit /\ CRTIdle /\ ConsIdle /\ MitInit /\ SwingIdle /\ GuardIdle /\ ScanInit /\ ProfileIdle /\ SMCIdle
       /\ DetectorsIdle /\ SourcesIdle /\ MarketDataIdle /\ StructureIdle /\ EnhanceIdle /\ ScanSignalsIdle /\ WebSocketIdle

BTNext == BacktestBarThrows \/ BacktestBar \/ BacktestBarMalformed \/ BacktestFinish

SpecBacktest == BTStart /\ [][BTNext]_vars

MitStart == MitInit /\ CRTIdle /\ ConsIdle /\ BTIdle /\ SwingIdle /\ GuardIdle /\ ScanInit /\ ProfileIdle /\ SMCIdle
       /\ DetectorsIdle /\ SourcesIdle /\ MarketDataIdle /\ StructureIdle /\ EnhanceIdle /\ ScanSignalsIdle /\ WebSocketIdle

MitNext == AnalyzeMitigation

SpecMitigation == MitStart /\ [][MitNext]_vars

SwingStart == SwingInit /\ CRTIdle /\ ConsIdle /\ BTIdle /\ MitInit /\ GuardIdle /\ ScanInit /\ ProfileIdle /\ SMCIdle
       /\ DetectorsIdle /\ SourcesIdle /\ MarketDataIdle /\ StructureIdle /\ EnhanceIdle /\ ScanSignalsIdle /\ WebSocketIdle

SwingNext == Tick \/ FindSwingPoints

SpecSwing == SwingStart /\ [][SwingNext]_vars

GuardStart == GuardInit /\ CRTIdle /\ ConsIdle /\ BTIdle /\ MitInit /\ SwingIdle /\ ScanInit /\ ProfileIdle /\ SMCIdle
       /\ DetectorsIdle /\ SourcesIdle /\ MarketDataIdle /\ StructureIdle /\ EnhanceIdle /\ ScanSignalsIdle /\ WebSocketIdle

GuardNext ==
    \/ CallCRTDetect
    \/ CallPureCRTDetect
    \/ CallPureScalping
    \/ CallBOS
    \/ CallGenerateSignals
    \/ CallProfileGenerateSignals
    \/ CallDetectorGenerateSignals

SpecGuard == GuardStart /\ [][GuardNext]_vars

ScanStart == ScanInit /\ CRTIdle /\ ConsIdle /\ BTIdle /\ MitInit /\ SwingIdle /\ GuardIdle /\ ProfileIdle /\ SMCIdle
       /\ DetectorsIdle /\ SourcesIdle /\ MarketDataIdle /\ StructureIdle /\ EnhanceIdle /\ ScanSignalsIdle /\ WebSocketIdle

ScanNext ==
    \/ ScanAllSymbols
    \/ StartScanning
    \/ TimerTick
    \/ StopScanning
    \/ SymbolsResolved
    \/ SymbolsRejected
    \/ BatchDone

SpecScan == ScanStart /\ [][ScanNext]_vars

ProfileStart ==
    ProfileInit /\ CRTIdle /\ ConsIdle /\ BTIdle /\ MitInit /\ SwingIdle /\ GuardIdle /\ ScanInit
       /\ SMCIdle /\ DetectorsIdle /\ SourcesIdle /\ MarketDataIdle /\ StructureIdle /\ EnhanceIdle /\ ScanSignalsIdle /\ WebSocketIdle

ProfileNext == GenerateProfileSignals

SpecProfile == ProfileStart /\ [][ProfileNext]_vars

SMCStart ==
    SMCInit /\ CRTIdle /\ ConsIdle /\ BTIdle /\ MitInit /\ SwingIdle /\ GuardIdle /\ ScanInit
       /\ ProfileIdle /\ DetectorsIdle /\ SourcesIdle /\ MarketDataIdle /\ StructureIdle /\ EnhanceIdle /\ ScanSignalsIdle /\ WebSocketIdle

SMCNext == GenerateSMCSignals \/ GenerateSMCSignalsFetchFails

SpecSMC == SMCStart /\ [][SMCNext]_vars

Quiet ==
    /\ CRTIdle /\ ConsIdle /\ BTIdle /\ MitInit /\ SwingIdle /\ GuardIdle /\ ScanInit
    /\ ProfileIdle /\ SMCIdle /\ MarketDataIdle /\ StructureIdle /\ EnhanceIdle /\ ScanSignalsIdle /\ WebSocketIdle

DetectorsStart == DetectorsInit /\ SourcesIdle /\ Quiet

DetectorsNext == HourPasses \/ GenerateDetectorSignals

SpecDetectors == DetectorsStart /\ [][DetectorsNext]_vars

SourcesStart == SourcesInit /\ DetectorsIdle /\ Quiet

SourcesNext == GenerateSourceSignals

SpecSources == SourcesStart /\ [][SourcesNext]_vars

MarketDataStart ==
    /\ MarketDataInit
    /\ CRTIdle /\ ConsIdle /\ BTIdle /\ MitInit /\ SwingIdle /\ GuardIdle /\ ScanInit
    /\ ProfileIdle /\ SMCIdle /\ DetectorsIdle /\ SourcesIdle /\ StructureIdle /\ EnhanceIdle /\ ScanSignalsIdle /\ WebSocketIdle

MarketDataNext ==
    ProviderChanges \/ ClockAdvances \/ GetMarketDataDeriv \/ GetMarketDataCached

SpecMarketData == MarketDataStart /\ [][MarketDataNext]_vars

StructureStart ==
    /\ StructureInit
    /\ CRTIdle /\ ConsIdle /\ BTIdle /\ MitInit /\ SwingIdle /\ GuardIdle /\ ScanInit
    /\ ProfileIdle /\ SMCIdle /\ DetectorsIdle /\ SourcesIdle /\ MarketDataIdle /\ EnhanceIdle /\ ScanSignalsIdle /\ WebSocketIdle

StructureNext == AnalyzeMarketStructure

SpecStructure == StructureStart /\ [][StructureNext]_vars

EnhanceStart ==
    /\ EnhanceInit
    /\ CRTIdle /\ ConsIdle /\ BTIdle /\ MitInit /\ SwingIdle /\ GuardIdle /\ ScanInit
    /\ ProfileIdle /\ SMCIdle /\ DetectorsIdle /\ SourcesIdle /\ MarketDataIdle /\ StructureIdle /\ ScanSignalsIdle /\ WebSocketIdle

EnhanceNext == EnhanceWithRisk

SpecEnhance == EnhanceStart /\ [][EnhanceNext]_vars

ScanSignalsStart ==
    /\ ScanSignalsInit
    /\ CRTIdle /\ ConsIdle /\ BTIdle /\ MitInit /\ SwingIdle /\ GuardIdle /\ ScanInit
    /\ ProfileIdle /\ SMCIdle /\ DetectorsIdle /\ SourcesIdle /\ MarketDataIdle /\ StructureIdle
    /\ EnhanceIdle /\ WebSocketIdle

ScanSignalsNext == ScanBatch \/ EmitSignals

SpecScanSignals == ScanSignalsStart /\ [][ScanSignalsNext]_vars

WebSocketStart ==
    /\ WebSocketInit
    /\ CRTIdle /\ ConsIdle /\ BTIdle /\ MitInit /\ SwingIdle /\ GuardIdle /\ ScanInit
    /\ ProfileIdle /\ SMCIdle /\ DetectorsIdle /\ SourcesIdle /\ MarketDataIdle /\ StructureIdle
    /\ EnhanceIdle /\ ScanSignalsIdle

WebSocketNext ==
    Connect \/ ReconnectTimerFires \/ SocketOpens \/ SocketCloses \/ Disconnect

SpecWebSocket == WebSocketStart /\ [][WebSocketNext]_vars

----------------------------------------------------------------------------
(* Claims about the CRT detectors *)

\* the triple ending at i (1-based) has a sweep candle closing outside the range
ClosesOutside(data, i) ==
    data[i - 1].close > data[i - 2].high \/ data[i - 1].close < data[i - 2].low

PiercesHigh(data, i) == data[i - 1].high > data[i - 2].high

PiercesLow(data, i) == data[i - 1].low < data[i - 2].low

Triples(data) == 3 .. Len(data)

\* the setup is the one the triple ending at i describes
SetupOfTriple(setup, data, i) ==
    /\ setup.crh = data[i - 2].high
    /\ setup.crl = data[i - 2].low
    /\ setup.sweepHigh = data[i - 1].high
    /\ setup.sweepLow = data[i - 1].low
    /\ setup.entryHint = data[i].open

KeptTriples(data) == {i \in Triples(data) : ~ClosesOutside(data, i)}

\* C1: a triple whose sweep candle closes outside the range candle's range
\* produces no setup (every setup is that of a triple closing inside, and there
\* are no more setups than such triples), and detect returns no signal when
\* every triple of the driver sequence is invalidated.
C1_InvalidatedTripleNoSetup ==
    /\ crtSetupsRan =>
          /\ \A k \in DOMAIN crtSetups :
                \E i \in KeptTriples(driver) : SetupOfTriple(crtSetups[k], driver, i)
          /\ Len(crtSetups) <= Cardinality(KeptTriples(driver))
    /\ (crtRan /\ KeptTriples(driver) = {}) => crtSignals = <<>>

\* C1 witness: a wick pierced the range and the close was outside it, another
\* triple was a valid sweep, and only that one became a setup
C1_Witness ==
    /\ crtSetupsRan /\ crtRan
    /\ \E i \in Triples(driver) :
          ClosesOutside(driver, i) /\ (PiercesHigh(driver, i) \/ PiercesLow(driver, i))
    /\ Len(crtSetups) = 1
    /\ Len(crtSignals) = 1

\* C2: no setup of PureCRTDetector comes from a triple whose sweep candle
\* closed outside the range candle's [low, high].
C2_PureInvalidatedTripleNoSetup ==
    pureRan => \A k \in DOMAIN pureSetups : ~ClosesOutside(driver, pureSetups[k].at)

\* the direction of the sweep of the triple ending at i, "none" without one
SweepOf(data, i) ==
    IF PiercesHigh(data, i) /\ data[i - 1].close < data[i - 2].high THEN "up"
    ELSE IF PiercesLow(data, i) /\ data[i - 1].close > data[i - 2].low THEN "down"
    ELSE "none"

ValidTriples(data) == {i \in KeptTriples(data) : SweepOf(data, i) # "none"}

MaxOf(S) == CHOOSE x \in S : \A y \in S : y <= x

\* C9: detect returns one signal, built from the most recent valid setup:
\* up-sweep -> SELL, stop = sweep high * 1.0005, target = range low;
\* down-sweep -> BUY, stop = sweep low * 0.9995, target = range high
\* (signal prices in units of 1e-8).
C9_SignalFromLatestSetup ==
    crtRan =>
      IF ValidTriples(driver) = {} THEN crtSignals = <<>>
      ELSE LET i == MaxOf(ValidTriples(driver))
               s == crtSignals[1]
           IN  /\ Len(crtSignals) = 1
               /\ SweepOf(driver, i) = "up" =>
                     /\ s.direction = "SELL"
                     /\ s.stopLoss = driver[i - 1].high * 10005
                     /\ s.takeProfit = driver[i - 2].low * 10000
               /\ SweepOf(driver, i) = "down" =>
                     /\ s.direction = "BUY"
                     /\ s.stopLoss = driver[i - 1].low * 9995
                     /\ s.takeProfit = driver[i - 2].high * 10000

\* C9 witness: the spec's instance (range [1.0950, 1.0975], sweep high 1.0980,
\* close 1.0968) is the latest of two valid setups: SELL, target 1.0950
C9_Witness ==
    /\ crtRan
    /\ Cardinality(ValidTriples(driver)) = 2
    /\ LET i == MaxOf(ValidTriples(driver))
       IN  /\ driver[i - 2].low = 10950 /\ driver[i - 2].high = 10975
           /\ driver[i - 1].high = 10980 /\ driver[i - 1].close = 10968
    /\ Len(crtSignals) = 1
    /\ crtSignals[1].direction = "SELL"
    /\ crtSignals[1].takeProfit = 109500000
    /\ crtSignals[1].stopLoss = 109854900

\* C28: every signal detect returns has its stop and its target on opposite
\* sides of the entry: takeProfit < entryPrice < stopLoss for SELL,
\* stopLoss < entryPrice < takeProfit for BUY.
C28_StopAndTargetStraddleEntry ==
    crtRan =>
      \A k \in DOMAIN crtSignals :
         LET s == crtSignals[k]
         IN  IF s.direction = "SELL"
             THEN s.takeProfit < s.entryPrice /\ s.entryPrice < s.stopLoss
             ELSE s.stopLoss < s.entryPrice /\ s.entryPrice < s.takeProfit

----------------------------------------------------------------------------
(* Claims about the consensus engine *)

Members(dir) == {k \in DOMAIN group : group[k].direction = dir}

RECURSIVE TotalConfidence(_)
TotalConfidence(K) ==
    IF K = {} THEN 0
    ELSE LET k == CHOOSE x \in K : TRUE
         IN  group[k].confidence + TotalConfidence(K \ {k})

\* C3: for a non-empty group the consensus confidence is 0 when BUY and SELL
\* members are equally many, the unweighted mean of the members' confidences
\* when all have one direction, and mean * |buys - sells| / size in general.
C3_ConsensusConfidence ==
    (consRan /\ group # <<>>) =>
      LET size == Len(group)
          buys == Cardinality(Members("BUY"))
          sells == Cardinality(Members("SELL"))
          total == TotalConfidence(DOMAIN group)
          c == consensus[1].confidence
      IN  /\ Len(consensus) = 1
          /\ c.d > 0
          /\ buys = sells => c.n = 0
          /\ (buys = size \/ sells = size) => c.n * size = total * c.d
          /\ c.n * size * size = total * Abs(buys - sells) * c.d

\* C3 witness: a split group of four with differing confidences got confidence 0
C3_Witness ==
    /\ consRan
    /\ Len(group) = 4
    /\ Cardinality(Members("BUY")) = 2
    /\ Cardinality(Members("SELL")) = 2
    /\ \E j, k \in DOMAIN group : group[j].confidence # group[k].confidence
    /\ consensus[1].confidence.n = 0
    /\ consensus[1].direction = "SELL"

----------------------------------------------------------------------------
(* Claims about the backtest replay engine *)

MetricNames ==
    {"totalTrades", "winRate", "averageWin", "averageLoss", "profitFactor",
     "maxDrawdown", "sharpeRatio"}

\* C4: when the strategy returned no signal at any bar (whatever the number of
\* candles, fewer than the 30 of the lookback included), the result has no
\* trades, finalCapital = initialCapital and every metric 0.
C4_NoSignalsNoTrades ==
    (btPc = "done" /\ btSignals = 0) =>
      LET r == btResult[1]
      IN  /\ r.trades = <<>>
          /\ r.finalCapital = [n |-> InitialCapital, d |-> 1]
          /\ DOMAIN r.metrics = MetricNames
          /\ \A m \in MetricNames : r.metrics[m] = [n |-> 0, d |-> 1]

\* C4 witness: two or more bars were replayed, none with a signal or an exception
C4_Witness ==
    /\ btPc = "done"
    /\ btSignals = 0
    /\ btThrows = 0
    /\ btLen >= Lookback + 2
    /\ Len(btResult[1].equityCurve) = btLen - Lookback + 1
    /\ btResult[1].trades = <<>>

\* C8: the spec's example. A single BUY signal entry=100, stop=98, target=106
\* with riskPerTrade 0.01 and capital 10000 is entered with size 50, and when
\* the trade exits because the target was reached its PnL is 300 and
\* finalCapital is 10300.
C8_ExampleTargetExit ==
    /\ (position # <<>> /\ trades = <<>> /\ position[1].direction = "BUY")
          => position[1].size = [n |-> 50, d |-> 1]
    /\ (/\ btPc = "done"
        /\ btSignals = 1
        /\ Len(trades) = 1
        /\ trades[1].direction = "BUY"
        /\ trades[1].reason = "Take profit hit")
          => /\ trades[1].pnl = [n |-> 300, d |-> 1]
             /\ btResult[1].finalCapital = [n |-> 10300, d |-> 1]

\* the bars at which the replay entered a position: the strategy returned a
\* signal and no position was open
EntryBars == {k \in DOMAIN btLog : btLog[k].signals # <<>> /\ ~btLog[k].open}

\* the entry with these fields was made from the signal of its own bar, at a
\* bar where no position was open
EnteredAtOwnBar(direction, entryPrice, entryBar) ==
    \E k \in EntryBars :
       /\ btLog[k].bar = entryBar
       /\ btLog[k].signals[1].direction = direction
       /\ btLog[k].signals[1].entryPrice = entryPrice

\* C11: at most one position is open at a time: the holding periods of the
\* trades and of the open position do not overlap, and every position was
\* entered from the signal of its entry bar while none was open; a signal
\* returned while a position was open is entered neither then nor later.
C11_OnePositionAtATime ==
    /\ \A k \in DOMAIN trades :
          /\ EnteredAtOwnBar(trades[k].direction, trades[k].entry, trades[k].entryBar)
          /\ trades[k].entryBar <= trades[k].exitBar
          /\ k > 1 => trades[k - 1].exitBar < trades[k].entryBar
    /\ (btPc = "loop" /\ position # <<>>) =>
          /\ EnteredAtOwnBar(position[1].direction, position[1].entryPrice,
                             position[1].entryBar)
          /\ trades # <<>> => trades[Len(trades)].exitBar < position[1].entryBar
    /\ Len(trades) + (IF btPc = "loop" /\ position # <<>> THEN 1 ELSE 0)
          = Cardinality(EntryBars)

\* C11 witness: the replay is over, a SELL signal arrived while a BUY position
\* was open, and the only trade is that BUY position
C11_Witness ==
    /\ btPc = "done"
    /\ Len(trades) = 1
    /\ trades[1].direction = "BUY"
    /\ \E k \in DOMAIN btLog :
          /\ btLog[k].open
          /\ btLog[k].signals # <<>>
          /\ btLog[k].signals[1].direction = "SELL"
          /\ btLog[k].bar > trades[1].entryBar

\* the signal a trade was entered from
SignalOfTrade(t) ==
    LET k == CHOOSE j \in DOMAIN btLog : btLog[j].bar = t.entryBar
    IN  btLog[k].signals[1]

\* the high/low range of candle b reaches the target or the stop of signal sig
RangeReaches(sig, b) ==
    IF sig.direction = "BUY"
    THEN b.high >= sig.takeProfit \/ b.low <= sig.stopLoss
    ELSE b.low <= sig.takeProfit \/ b.high >= sig.stopLoss

\* C12: a position is closed, before the final close, on the first bar strictly
\* after its entry bar whose high/low range reaches its target or stop, and on
\* no other bar.
C12_ExitOnFirstRangeBar ==
    /\ \A k \in DOMAIN trades :
          LET sig == SignalOfTrade(trades[k])
          IN  /\ trades[k].reason # "End of data" =>
                    /\ trades[k].exitBar > trades[k].entryBar
                    /\ RangeReaches(sig, CandleAt(trades[k].exitBar))
              /\ \A b \in (trades[k].entryBar + 1) .. (trades[k].exitBar - 1) :
                    ~RangeReaches(sig, CandleAt(b))
    /\ (btPc = "loop" /\ position # <<>>) =>
          \A b \in (position[1].entryBar + 1) .. (btI - 1) :
             ~RangeReaches(position[1], CandleAt(b))

\* C13: a position still open after the last bar is closed at the last
\* candle's close: exactly one trade record is appended for it, its PnL is in
\* finalCapital, and the result holds a closed trade for every position entered.
C13_FinalClose ==
    btPc = "done" =>
      LET r == btResult[1]
      IN  /\ r.trades = trades
          /\ r.finalCapital = RatAdd(RatInt(InitialCapital), SumPnl(trades))
          /\ Len(trades) = Cardinality(EntryBars)
          /\ position # <<>> =>
                LET t == trades[Len(trades)]
                    pos == position[1]
                    move == IF pos.direction = "BUY"
                            THEN CloseAt(btLen - 1) - pos.entryPrice
                            ELSE pos.entryPrice - CloseAt(btLen - 1)
                IN  /\ t.reason = "End of data"
                    /\ t.exit = CloseAt(btLen - 1)
                    /\ t.exitBar = btLen - 1
                    /\ t.entryBar = pos.entryBar
                    /\ t.pnl = RatMul(RatInt(move), pos.size)
                    /\ Cardinality({k \in DOMAIN trades :
                                      trades[k].entryBar = pos.entryBar}) = 1
          /\ position = <<>> =>
                \A k \in DOMAIN trades : trades[k].reason # "End of data"

\* C13 witness: one trade had exited during the replay, a later position was
\* held over more than one bar and closed at the end with a PnL other than 0
C13_Witness ==
    /\ btPc = "done"
    /\ position # <<>>
    /\ Len(trades) = 2
    /\ trades[2].reason = "End of data"
    /\ trades[2].entryBar < trades[2].exitBar
    /\ trades[2].pnl.n # 0

C24_ThrowingBarChangesNothing ==
    [][btThrows' > btThrows =>
          /\ btPc' = "loop"
          /\ btI' = btI + 1
          /\ UNCHANGED <<capital, trades, position>>]_vars

\* C24 for a bar at which strategy.detect rejects
C24_RejectedDetectChangesNothing ==
    [][(btThrows' > btThrows /\ btLog'[Len(btLog')].signals = <<>>) =>
          /\ btPc' = "loop"
          /\ btI' = btI + 1
          /\ UNCHANGED <<capital, trades, position>>]_vars

----------------------------------------------------------------------------
(* Claims about the structure analyzer *)

SameBlock(a, b) == a.type = b.type /\ a.level = b.level /\ a.timestamp = b.timestamp

\* C5: an order block reported mitigated for a candle sequence is still
\* reported, with mitigated = true, for the sequence with further candles
\* appended (mitPrev: the report before the candles arrived).
C5_MitigationMonotonic ==
    \A k \in DOMAIN mitPrev :
       mitPrev[k].mitigated =>
          \E j \in DOMAIN mitLevels : SameBlock(mitLevels[j], mitPrev[k]) /\ mitLevels[j].mitigated

\* C5 witness: a block was mitigated, candles that do not reach its level were
\* appended, and it is still mitigated; another block became mitigated only now
C5_Witness ==
    /\ \E k \in DOMAIN mitPrev :
          /\ mitPrev[k].mitigated
          /\ mitPrev[k].type = "bullish"
          /\ mitData[Len(mitData)].low > mitPrev[k].level
          /\ \E j \in DOMAIN mitLevels :
                SameBlock(mitLevels[j], mitPrev[k]) /\ mitLevels[j].mitigated
    /\ \E k \in DOMAIN mitPrev :
          /\ ~mitPrev[k].mitigated
          /\ \E j \in DOMAIN mitLevels :
                SameBlock(mitLevels[j], mitPrev[k]) /\ mitLevels[j].mitigated

Records(run) == {run[k] : k \in DOMAIN run}

\* C6: two runs of findSwingPoints on the same price sequence return the same
\* set of records (index, price, timestamp).
C6_SwingRunsIdentical ==
    Len(swRuns) = 2 => Records(swRuns[1]) = Records(swRuns[2])

----------------------------------------------------------------------------
(* Claims about the minimum-length guards *)

\* C7: a component handed fewer candles than its minimum length returns an
\* empty list and does not throw; it never returns a placeholder signal.
C7_ShortInputReturnsEmpty ==
    (called # "" /\ candleCount < MinimumLength[called]) =>
        (returned = <<>> /\ ~threw)

----------------------------------------------------------------------------
(* Claims about the CRT scanner *)

\* C10: at most one scanAllSymbols run is in progress at any time, and a call
\* made while a run was in progress fetched no symbols, scanned no symbol and
\* emitted no signal.
C10_NoOverlappingScans ==
    /\ \A j, k \in DOMAIN runs :
          (InProgress(runs[j]) /\ InProgress(runs[k])) => j = k
    /\ \A k \in DOMAIN runs :
          runs[k].busyAtCall =>
             /\ runs[k].pc = "refused"
             /\ runs[k].fetched = 0
             /\ runs[k].scanned = 0
             /\ runs[k].emitted = 0

\* C10 witness: a timer tick and a direct call were refused while the first
\* run, started by startScanning, is in its second batch of symbols
C10_Witness ==
    /\ Len(runs) = 3
    /\ runs[1].via = "start" /\ runs[1].pc = "batch" /\ runs[1].index = BATCH_SIZE
    /\ \E k \in 2..3 : runs[k].via = "tick" /\ runs[k].pc = "refused" /\ runs[k].busyAtCall
    /\ \E k \in 2..3 : runs[k].via = "call" /\ runs[k].pc = "refused" /\ runs[k].busyAtCall

\* C26: the scan-in-progress flag is set exactly while a scanAllSymbols run is
\* in progress: it is cleared when the run ends, completed or failed, so that
\* a later call is refused only while a run is in progress; stopScanning
\* changes neither the flag nor any run, and a refused call leaves the flag set.
C26_FlagFollowsTheScan ==
    /\ [](scanning <=> \E k \in DOMAIN runs : InProgress(runs[k]))
    /\ [](\A k \in DOMAIN runs : runs[k].pc = "refused" => runs[k].busyAtCall)
    /\ [][(scanInterval /\ ~scanInterval') => UNCHANGED <<scanning, runs>>]_vars
    /\ [][(Len(runs') > Len(runs) /\ runs'[Len(runs')].pc = "refused") =>
              (scanning /\ scanning' /\ SubSeq(runs', 1, Len(runs)) = runs)]_vars

\* C26 witness: the first run failed (getAllSymbols rejected), a later timer
\* tick started a new run, and a call made during that run was refused
C26_Witness ==
    /\ Len(runs) = 3
    /\ runs[1].pc = "failed"
    /\ runs[2].via = "tick" /\ InProgress(runs[2])
    /\ runs[3].pc = "refused"
    /\ scanning
    /\ ~scanInterval

----------------------------------------------------------------------------
(* Claims about the strategy-profile signal generator *)

\* C14: under a profile P every returned signal has confidence >=
\* P.minConfidence and riskReward >= P.minRiskReward, consensus signals
\* included, and nothing is returned when riskScore > 0.8.
C14_ReturnedSignalsMeetProfile ==
    (pfCalled /\ pfStrategy \in DOMAIN Profiles) =>
       /\ \A k \in DOMAIN pfReturned :
             /\ ~RatLess(pfReturned[k].confidence, RatInt(Profiles[pfStrategy].minConfidence))
             /\ pfReturned[k].riskReward >= Profiles[pfStrategy].minRiskReward
       /\ (~pfRisk.throws /\ pfRisk.riskScore > 80) => pfReturned = <<>>

\* C18: a call with a strategy name that is not a profile is rejected: an
\* error reaches the caller and no signals of a default profile are returned.
C18_UnknownStrategyRejected ==
    (pfCalled /\ pfStrategy \notin DOMAIN Profiles) =>
       (pfThrew /\ pfReturned = <<>>)

----------------------------------------------------------------------------
(* Claims about the SMC top-down strategy *)

\* every field of the signal is set and the prices are on the side of the
\* entry that the direction asks for
CompleteSignal(sig) ==
    /\ sig.type = "SMC_CHOCH_STACKED"
    /\ sig.direction \in {"BUY", "SELL"}
    /\ sig.entryPrice > 0
    /\ sig.confidence \in 60..95
    /\ sig.riskReward = 200
    /\ sig.direction = "BUY" =>
          (sig.stopLoss < sig.entryPrice * 1000 /\ sig.takeProfit > sig.entryPrice * 100)
    /\ sig.direction = "SELL" =>
          (sig.stopLoss > sig.entryPrice * 1000 /\ sig.takeProfit < sig.entryPrice * 100)

\* the four top-down stages for the driver zone of the given type
StagesConfirmed(type) ==
    /\ h4 # <<>> /\ m15 # <<>> /\ m1 # <<>>
    /\ \E k \in DOMAIN detectZones(h4) :
          /\ detectZones(h4)[k].type = type
          /\ hasCHOCHInsideZone(m15, detectZones(h4)[k])
    /\ deriveReactionZoneFromCHOCH(m15) # <<>>
    /\ hasCHOCHInsideZone(m1, deriveReactionZoneFromCHOCH(m15)[1])

\* C15: generateSMCSignals returns no signal or exactly one complete signal,
\* and a signal only if a 4h zone exists, the 15m candles inside it hold a
\* CHOCH, a reaction zone is derived from the 15m candles and the 1m candles
\* inside the reaction zone hold a CHOCH.
C15_SignalOnlyWhenAllStagesConfirm ==
    smcCalled =>
       /\ Len(smcReturned) <= 1
       /\ smcReturned # <<>> =>
             /\ CompleteSignal(smcReturned[1])
             /\ StagesConfirmed(IF smcReturned[1].direction = "BUY"
                                THEN "demand" ELSE "supply")

\* C15 witness: a SELL signal was returned from a supply zone
C15_Witness ==
    /\ smcCalled
    /\ Len(smcReturned) = 1
    /\ smcReturned[1].direction = "SELL"
    /\ \E k \in DOMAIN detectZones(h4) : detectZones(h4)[k].type = "supply"

----------------------------------------------------------------------------
(* Claims about the swing finder *)

\* the 0-based indices that are at least SwingWindow from either end and whose
\* price is strictly above (high) or strictly below (low) each of the
\* SwingWindow prices on either side
SwingIndices(prices, type) ==
    { i \in 0 .. (Len(prices) - 1) :
        /\ SwingWindow <= i
        /\ i < Len(prices) - SwingWindow
        /\ \A d \in 1 .. SwingWindow :
              IF type = "high"
              THEN prices[i + 1 - d] < prices[i + 1] /\ prices[i + 1 + d] < prices[i + 1]
              ELSE prices[i + 1 - d] > prices[i + 1] /\ prices[i + 1 + d] > prices[i + 1] }

\* C20: findSwingPoints returns index i iff i is at least lookback from either
\* end and prices[i] is strictly beyond each of the lookback prices on either
\* side; each index is returned once, in ascending order, with its price, and
\* a flat sequence has no swings.
C20_SwingsAreStrictLocalExtremes ==
    \A r \in DOMAIN swRuns :
        LET run == swRuns[r]
        IN  /\ { run[k].index : k \in DOMAIN run } = SwingIndices(swPrices, swType)
            /\ \A k \in DOMAIN run : run[k].price = swPrices[run[k].index + 1]
            /\ \A k \in 1 .. (Len(run) - 1) : run[k].index < run[k + 1].index
            /\ (\A x, y \in DOMAIN swPrices : swPrices[x] = swPrices[y]) => run = <<>>

C20_Witness ==
    /\ swRuns # <<>>
    /\ swType = "low"
    /\ Len(swRuns[1]) = 1
    /\ swRuns[1][1].index = SwingWindow

----------------------------------------------------------------------------
(* Claims about the detector-driven signal generator *)

DetectorsCalled ==
    LET ds == ProfileDetectors[DetectorConfig(rdStrategy)]
    IN  { ds[k] : k \in { x \in DOMAIN ds : DetectorRuns(ds[x], rdTimeframe) } }

\* the detectors whose signal is in the list a call returned
Contributors(call) ==
    { call.returned[k].detector : k \in DOMAIN call.returned }

\* C17 for the detector-driven generator: a detector that threw contributes
\* nothing, and every other detector called in the round that found a signal
\* passing the profile's thresholds during a trading session has it in the
\* returned list.
C17_DetectorFailureIsolated ==
    \A i \in DOMAIN rdCalls :
        isTradingSession(rdCalls[i].hour) =>
            Contributors(rdCalls[i]) =
                { d \in DetectorsCalled :
                    /\ rdOutcomes[d] = "signal"
                    /\ ProfileFilter(<<DetectorSignal(d)>>,
                                     Profiles[DetectorConfig(rdStrategy)]) # <<>> }

C17_DetectorWitness ==
    /\ rdCalls # <<>>
    /\ isTradingSession(rdCalls[1].hour)
    /\ \E d \in DetectorsCalled : rdOutcomes[d] = "throws"
    /\ Contributors(rdCalls[1]) # {}

----------------------------------------------------------------------------
(* Claims about the signal generator of signal-generator.js *)

\* the types of the signals in the returned list
ReturnedTypes == { sgReturned[k].type : k \in DOMAIN sgReturned }

\* C17: when a signal source throws during a generateSignals round, the
\* returned list holds no NO_SIGNAL/HOLD placeholder and still holds the
\* signals of the sources that did not throw.
C17_SourceFailureIsolated ==
    (sgCalled /\ ~sgRisk.throws /\ sgRisk.riskScore <= 80) =>
        ReturnedTypes = { SourceSignal(n).type : n \in { x \in SourceNames : sgOutcomes[x] = "signal" } }

----------------------------------------------------------------------------
(* Claims about the market data services *)

\* the candles of a result that generateSyntheticData made
Fabricated(result) ==
    { k \in DOMAIN result.data : result.data[k].synthetic }

\* C19: getMarketData never throws and never returns fabricated candles, and
\* a call that finds the upstream provider unavailable and has nothing cached
\* returns the empty sequence.
C19_EmptyWhenUnavailable ==
    \A i \in DOMAIN mdResults :
        /\ ~mdResults[i].threw
        /\ Fabricated(mdResults[i]) = {}
        /\ (~mdResults[i].up /\ ~mdResults[i].cached) => mdResults[i].data = <<>>

\* C19 for the Deriv service alone
C19_DerivEmptyWhenUnavailable ==
    \A i \in DOMAIN mdResults :
        mdResults[i].service = "deriv" =>
            /\ ~mdResults[i].threw
            /\ Fabricated(mdResults[i]) = {}
            /\ ~mdResults[i].up => mdResults[i].data = <<>>

----------------------------------------------------------------------------
(* Claims about the market structure *)

\* the trend of the claim: from the last two swing highs and swing lows
LastTwoTrend(highs, lows) ==
    IF Len(highs) < 2 \/ Len(lows) < 2 THEN "neutral"
    ELSE IF highs[Len(highs)] > highs[Len(highs) - 1] /\ lows[Len(lows)] > lows[Len(lows) - 1]
         THEN "bullish"
    ELSE IF highs[Len(highs)] < highs[Len(highs) - 1] /\ lows[Len(lows)] < lows[Len(lows) - 1]
         THEN "bearish"
    ELSE "neutral"

\* C21: the trend of the structure is bullish iff the last swing high and the
\* last swing low are each above the one before, bearish iff both are below,
\* neutral otherwise, and neutral with fewer than 2 swings of a kind.
C21_TrendFromLastTwoSwings ==
    stCalled => stStructure.trend = LastTwoTrend(stHighs, stLows)

\* C21 for determineTrend of backtester.js
C21_AverageTrendFromLastTwoSwings ==
    stCalled => stStructure.averageTrend = LastTwoTrend(stHighs, stLows)

\* C21 for BOSStrategy, reading uptrend as bullish and downtrend as bearish
C21_BOSTrendFromLastTwoSwings ==
    stCalled =>
        LET t == stStructure.bosTrend
        IN  (IF t = "uptrend" THEN "bullish" ELSE IF t = "downtrend" THEN "bearish" ELSE "neutral")
                = LastTwoTrend(stHighs, stLows)

\* C22: a bullish change of character is reported only when the swing high
\* before the last was a lower high, a bearish one only when the swing low
\* before the last was a higher low.
C22_CHOCHFollowsOppositeStructure ==
    stCalled =>
        /\ stStructure.changeOfCharacter.bullish =>
               stHighs[Len(stHighs) - 1] < stHighs[Len(stHighs) - 2]
        /\ stStructure.changeOfCharacter.bearish =>
               stLows[Len(stLows) - 1] > stLows[Len(stLows) - 2]

----------------------------------------------------------------------------
(* Claims about the risk enhancement *)

\* C23: enhanceWithRisk sets positionSize to 0.5 iff riskScore > 0.7 and to
\* 1.0 otherwise; with a non-zero ATR the stop becomes entryPrice - 2 ATR for
\* BUY and entryPrice + 2 ATR for SELL, otherwise it is unchanged; direction,
\* entryPrice, takeProfit and confidence are unchanged.
C23_EnhanceWithRiskEffect ==
    enCalled =>
        /\ enEnhanced.positionSize = (IF enRisk.riskScore > 70 THEN 50 ELSE 100)
        /\ enRisk.atr # 0 /\ enSignal.direction = "BUY" =>
               enEnhanced.stopLoss = enSignal.entryPrice - 2 * enRisk.atr
        /\ enRisk.atr # 0 /\ enSignal.direction = "SELL" =>
               enEnhanced.stopLoss = enSignal.entryPrice + 2 * enRisk.atr
        /\ enRisk.atr = 0 => enEnhanced.stopLoss = enSignal.stopLoss
        /\ \A f \in {"direction", "entryPrice", "takeProfit", "confidence"} :
               enEnhanced[f] = enSignal[f]

C23_Witness ==
    /\ enCalled
    /\ enSignal.direction = "SELL"
    /\ enRisk.riskScore > 70
    /\ enRisk.atr # 0
    /\ enEnhanced.stopLoss # enSignal.stopLoss
    /\ enEnhanced.positionSize = 50

\* C29: the riskReward a signal carries equals |takeProfit - entryPrice| /
\* |entryPrice - stopLoss| computed from its own entry, stop and target, also
\* after enhanceWithRisk has replaced the stop.
C29_RiskRewardMatchesLevels ==
    enCalled =>
        enEnhanced.riskReward * Abs(enEnhanced.entryPrice - enEnhanced.stopLoss)
            = 100 * Abs(enEnhanced.takeProfit - enEnhanced.entryPrice)

\* C29 for the SMC signal, whose stopLoss is in thousandths and whose
\* takeProfit is in hundredths of the price unit of entryPrice
C29_SMCRiskRewardMatchesLevels ==
    \A k \in DOMAIN smcReturned :
        LET s == smcReturned[k]
        IN  s.riskReward * Abs(1000 * s.entryPrice - s.stopLoss)
                = 1000 * Abs(s.takeProfit - 100 * s.entryPrice)

----------------------------------------------------------------------------
(* Claims about the signals of a CRT scan *)

\* how often the pattern at position k of symbol s was emitted
TimesEmitted(s, k) ==
    Cardinality({ e \in DOMAIN seEmitted :
                    seEmitted[e].symbol = s /\ seEmitted[e].timestamp = k })

\* confidence >= 0.6 and (takeProfit - entry) / (entry - stopLoss) >= 1.5,
\* for the patterns of detectCRTPatterns, whose stop is below the entry
MeetsThresholds(p) ==
    /\ p.confidence >= 60
    /\ 2 * (p.takeProfit - p.entry) >= 3 * (p.entry - p.stopLoss)

\* C25: every signal emitted by a scan has confidence >= 0.6 and risk/reward
\* >= 1.5, and once the scan is over every pattern meeting both was emitted
\* exactly once, whichever batch its symbol was in.
C25_EmittedSignalsPassFilterOnce ==
    /\ \A e \in DOMAIN seEmitted :
          /\ MeetsThresholds(seEmitted[e].pattern)
          /\ seEmitted[e].pattern = seSymbols[seEmitted[e].symbol][seEmitted[e].timestamp]
    /\ sePc = "done" =>
          \A s \in DOMAIN seSymbols : \A k \in DOMAIN seSymbols[s] :
             TimesEmitted(s, k) = (IF MeetsThresholds(seSymbols[s][k]) THEN 1 ELSE 0)

C25_Witness ==
    /\ sePc = "done"
    /\ Len(seSymbols) > BATCH_SIZE
    /\ \E s \in 1 .. BATCH_SIZE : \E k \in DOMAIN seSymbols[s] : TimesEmitted(s, k) = 1
    /\ \E k \in DOMAIN seSymbols[BATCH_SIZE + 1] :
          /\ TimesEmitted(BATCH_SIZE + 1, k) = 1
          /\ \E j \in DOMAIN seSymbols[BATCH_SIZE + 1] : TimesEmitted(BATCH_SIZE + 1, j) = 0

----------------------------------------------------------------------------
(* Claims about the WebSocketService *)

\* C30: after disconnect() no reconnect is scheduled and no socket is created
\* until connect() is called again; reconnectAttempts never exceeds
\* maxReconnectAttempts and goes back to 0 only when a socket opens.
C30_NoReconnectAfterDisconnect ==
    /\ [](wsStopped => ~wsResumed)
    /\ [](reconnectAttempts <= maxReconnectAttempts)
    /\ [][reconnectAttempts' < reconnectAttempts =>
              (reconnectAttempts' = 0 /\ isConnected')]_vars

\* C30, the bound on reconnectAttempts alone
C30_AttemptsBounded ==
    /\ reconnectAttempts <= maxReconnectAttempts
    /\ wsTimers <= reconnectAttempts + maxReconnectAttempts

C30_AttemptsWitness ==
    /\ reconnectAttempts = maxReconnectAttempts
    /\ wsCreated = MaxSockets
    /\ wsTimers = 0

=============================================================================
